---- MODULE Spec2Model ----
(***************************************************************************)
(* Verification model of the rhine conversation tree, the per-endpoint     *)
(* concurrency gate with the unary / streaming request pipeline, and the   *)
(* tag based tool dispatcher.                                              *)
(*                                                                         *)
(* The module holds several specifications over one set of variables:      *)
(*   SpecTree  - Messages::add / update_content / delete on one root       *)
(*   SpecGate  - BaseChat::get_response / get_stream_response /            *)
(*               get_content_from_stream_resp over THREAD_POOL             *)
(*   SpecTool  - SingleChat::get_tool_answer / process_tool_call           *)
(*   SpecClean - extract_tool_uses and the clean_answer fold               *)
(*   SpecContext - Messages::assemble_context on a tree built by add       *)
(*   SpecFold  - the chunk by chunk fold of get_content_from_stream_resp   *)
(*   SpecChat  - BaseChat::add_message and the exchanges of SingleChat     *)
(*               and MultiChat                                             *)
(*   SpecCursor - the cursor of a chat over add / update_content / delete  *)
(*   SpecConfig - Config::add_api_source while requests run                *)
(*   SpecUsage - the usage counter of BaseChat::get_response               *)
(*   SpecUnary - the unary exchange of a SingleChat and its text           *)
(*   SpecStreamed - the streamed exchanges of a SingleChat and its counter *)
(*   SpecDispatch - the main and the tool-call requests of get_tool_answer *)
(*   SpecProgress - the request pipeline under fair scheduling             *)
(*   SpecHistory - BaseChat::add_message and build_request_body            *)
(*   SpecRole  - Role::to_string and Role::from                            *)
(* Each specification leaves the variables of the others unchanged; the    *)
(* chat specifications run the call of the chat through `req`, the gate    *)
(* and `fold`, one step for every await of the call.                       *)
(***************************************************************************)
EXTENDS Integers, Sequences, FiniteSets, TLC

VARIABLES
    messages,     \* the root Messages node (message.rs:86-102)
    msg_op,       \* the last tree operation: path, role and content it applied, Result
    THREAD_POOL,  \* base_url -> id of the Arc<Semaphore> registered for it (config.rs:226)
    shards,       \* base_url -> the shard of THREAD_POOL the hash of the run puts the key in
    semaphores,   \* semaphore id -> [capacity, permits]: the Semaphore objects alive
    req,          \* chat id -> the chat's outbound call: position, permit, result, usage
    tool,         \* one get_tool_answer invocation with its spawned tasks
    clean,        \* one application of extract_tool_uses and of the clean_answer fold
    ctx,          \* one application of assemble_context: arguments, collected nodes, result
    chat,         \* one BaseChat with its tree, its message_path and its current exchange
    fold          \* one get_content_from_stream_resp fold: items received, StreamResult

vars == <<messages, msg_op, THREAD_POOL, shards, semaphores, req, tool, clean, ctx,
          chat, fold>>

treeVars == <<messages, msg_op>>

gateVars == <<THREAD_POOL, shards, semaphores, req>>

toolVars == <<tool>>

cleanVars == <<clean>>

ctxVars == <<ctx>>

chatVars == <<chat>>

foldVars == <<fold>>

\* the variables of the context, chat and fold specifications
dialogVars == <<ctx, chat, fold>>

(***************************************************************************)
(* Bounds of the model                                                     *)
(***************************************************************************)
MaxNodes == 4

(***************************************************************************)
(* Option and Result values                                                *)
(***************************************************************************)
None == [some |-> FALSE]

Some(v) == [some |-> TRUE, val |-> v]

\* i32::MAX and i32::MIN, the range of BaseChat::usage
MaxI32 == 2147483647

MinI32 == (-MaxI32) - 1

OkUnit == [ok |-> TRUE]

InvalidPath(p) == [ok |-> FALSE, err |-> "InvalidPath", path |-> p]

InvalidIndex(i, p) == [ok |-> FALSE, err |-> "InvalidIndex", index |-> i, path |-> p]

UnsupportedOperation == [ok |-> FALSE, err |-> "UnsupportedOperation"]

(***************************************************************************)
(* Role (message.rs:30-47)                                                 *)
(***************************************************************************)
System == [tag |-> "System", name |-> ""]

User == [tag |-> "User", name |-> ""]

Assistant == [tag |-> "Assistant", name |-> ""]

Character(n) == [tag |-> "Character", name |-> n]

\* the role msg_op holds for an operation that takes none or that failed
NoRole == [tag |-> "none", name |-> ""]

\* the roles and contents the tree operations are driven with
TreeRoles == {User, Character("Alice")}

TreeContents == {"a", "b"}

(***************************************************************************)
(* Messages (message.rs:86-404)                                            *)
(***************************************************************************)
new(role, content) == [path |-> <<>>, role |-> role, content |-> content, child |-> <<>>]

new_with_path(path, role, content) ==
    [path |-> path, role |-> role, content |-> content, child |-> <<>>]

\* Vec::remove(index) with a 0-based index
VecRemove(s, index) == [i \in 1..(Len(s) - 1) |-> IF i <= index THEN s[i] ELSE s[i + 1]]

\* a resolution that stays at the node reached when an index is out of range
RECURSIVE get_node_by_path_clamped(_, _)
get_node_by_path_clamped(self, path) ==
    IF path = <<>> THEN Some(self)
    ELSE IF path[1] >= Len(self.child) THEN Some(self)
    ELSE get_node_by_path_clamped(self.child[path[1] + 1], Tail(path))

RECURSIVE get_node_by_path(_, _)
get_node_by_path(self, path) ==
    IF path = <<>> THEN Some(self)
    ELSE IF path[1] >= Len(self.child) THEN None
    ELSE get_node_by_path(self.child[path[1] + 1], Tail(path))

\* the tree `self` after the node that get_node_by_path_mut(path) borrows has been
\* overwritten in place by `node`; `path` resolves
RECURSIVE get_node_by_path_mut(_, _, _)
get_node_by_path_mut(self, path, node) ==
    IF path = <<>> THEN node
    ELSE [self EXCEPT !.child[path[1] + 1] =
              get_node_by_path_mut(self.child[path[1] + 1], Tail(path), node)]

\* an add that builds the new node with Messages::new, leaving its path empty
add_unrooted(self, path, role, content) ==
    LET parent == get_node_by_path(self, path) IN
    IF ~parent.some THEN [res |-> InvalidPath(path), self |-> self]
    ELSE [res |-> OkUnit,
          self |-> get_node_by_path_mut(self, path,
                       [parent.val EXCEPT !.child = Append(@, new(role, content))])]

add(self, path, role, content) ==
    LET parent == get_node_by_path(self, path) IN
    IF ~parent.some THEN [res |-> InvalidPath(path), self |-> self]
    ELSE LET new_path == Append(path, Len(parent.val.child))
             new_message == new_with_path(new_path, role, content)
         IN [res |-> OkUnit,
             self |-> get_node_by_path_mut(self, path,
                          [parent.val EXCEPT !.child = Append(@, new_message)])]

\* an update that puts a newly built node in the place of the old one
update_content_rebuilt(self, path, content) ==
    LET node == get_node_by_path(self, path) IN
    IF ~node.some THEN [res |-> InvalidPath(path), self |-> self]
    ELSE [res |-> OkUnit,
          self |-> get_node_by_path_mut(self, path,
                       new_with_path(node.val.path, node.val.role, content))]

update_content(self, path, content) ==
    LET node == get_node_by_path(self, path) IN
    IF ~node.some THEN [res |-> InvalidPath(path), self |-> self]
    ELSE [res |-> OkUnit,
          self |-> get_node_by_path_mut(self, path, [node.val EXCEPT !.content = content])]

\* a renumbering that repairs the node itself and forgets its descendants
update_node_paths_shallow(node, parent_path, index) ==
    [node EXCEPT !.path = Append(parent_path, index)]

RECURSIVE update_node_paths(_, _, _)
update_node_paths(node, parent_path, index) ==
    LET p == Append(parent_path, index) IN
    [node EXCEPT !.path = p,
                 !.child = [i \in 1..Len(node.child) |->
                               update_node_paths(node.child[i], p, i - 1)]]

\* Vec::swap_remove(index) with a 0-based index: the last element fills the hole
VecSwapRemove(s, index) ==
    [i \in 1..(Len(s) - 1) |-> IF i = index + 1 THEN s[Len(s)] ELSE s[i]]

\* a delete that takes the child out with swap_remove
delete_swap_remove(self, path) ==
    IF path = <<>> THEN [res |-> UnsupportedOperation, self |-> self]
    ELSE LET parent_path == SubSeq(path, 1, Len(path) - 1)
             index == path[Len(path)]
             parent == get_node_by_path(self, parent_path)
         IN IF ~parent.some THEN [res |-> InvalidPath(parent_path), self |-> self]
            ELSE IF index >= Len(parent.val.child)
            THEN [res |-> InvalidIndex(index, parent_path), self |-> self]
            ELSE LET removed == VecSwapRemove(parent.val.child, index)
                     renumbered == [i \in 1..Len(removed) |->
                                       IF i - 1 >= index
                                       THEN update_node_paths(removed[i], parent_path, i - 1)
                                       ELSE removed[i]]
                 IN [res |-> OkUnit,
                     self |-> get_node_by_path_mut(self, parent_path,
                                  [parent.val EXCEPT !.child = renumbered])]

\* a delete that takes an index past the children for nothing to do
delete_ignores_index(self, path) ==
    IF path = <<>> THEN [res |-> UnsupportedOperation, self |-> self]
    ELSE LET parent_path == SubSeq(path, 1, Len(path) - 1)
             index == path[Len(path)]
             parent == get_node_by_path(self, parent_path)
         IN IF ~parent.some THEN [res |-> InvalidPath(parent_path), self |-> self]
            ELSE IF index >= Len(parent.val.child)
            THEN [res |-> OkUnit, self |-> self]
            ELSE LET removed == VecRemove(parent.val.child, index)
                     renumbered == [i \in 1..Len(removed) |->
                                       IF i - 1 >= index
                                       THEN update_node_paths(removed[i], parent_path, i - 1)
                                       ELSE removed[i]]
                 IN [res |-> OkUnit,
                     self |-> get_node_by_path_mut(self, parent_path,
                                  [parent.val EXCEPT !.child = renumbered])]

\* a delete that answers the empty path by removing every child of the root
delete_root_clears(self, path) ==
    IF path = <<>>
    THEN [res |-> UnsupportedOperation, self |-> [self EXCEPT !.child = <<>>]]
    ELSE LET parent_path == SubSeq(path, 1, Len(path) - 1)
             index == path[Len(path)]
             parent == get_node_by_path(self, parent_path)
         IN IF ~parent.some THEN [res |-> InvalidPath(parent_path), self |-> self]
            ELSE IF index >= Len(parent.val.child)
            THEN [res |-> InvalidIndex(index, parent_path), self |-> self]
            ELSE LET removed == VecRemove(parent.val.child, index)
                     renumbered == [i \in 1..Len(removed) |->
                                       IF i - 1 >= index
                                       THEN update_node_paths(removed[i], parent_path, i - 1)
                                       ELSE removed[i]]
                 IN [res |-> OkUnit,
                     self |-> get_node_by_path_mut(self, parent_path,
                                  [parent.val EXCEPT !.child = renumbered])]

delete(self, path) ==
    IF path = <<>> THEN [res |-> UnsupportedOperation, self |-> self]
    ELSE LET parent_path == SubSeq(path, 1, Len(path) - 1)
             index == path[Len(path)]
             parent == get_node_by_path(self, parent_path)
         IN IF ~parent.some THEN [res |-> InvalidPath(parent_path), self |-> self]
            ELSE IF index >= Len(parent.val.child)
            THEN [res |-> InvalidIndex(index, parent_path), self |-> self]
            ELSE LET removed == VecRemove(parent.val.child, index)
                     renumbered == [i \in 1..Len(removed) |->
                                       IF i - 1 >= index
                                       THEN update_node_paths(removed[i], parent_path, i - 1)
                                       ELSE removed[i]]
                 IN [res |-> OkUnit,
                     self |-> get_node_by_path_mut(self, parent_path,
                                  [parent.val EXCEPT !.child = renumbered])]

(***************************************************************************)
(* Helpers over a tree                                                     *)
(***************************************************************************)
RECURSIVE NodeCount(_)
NodeCount(node) ==
    LET RECURSIVE Sum(_)
        Sum(i) == IF i = 0 THEN 0 ELSE NodeCount(node.child[i]) + Sum(i - 1)
    IN 1 + Sum(Len(node.child))

\* the positions (root-down child index sequences) of all nodes below and including `node`
RECURSIVE Positions(_, _)
Positions(node, pos) ==
    {pos} \cup UNION {Positions(node.child[i], Append(pos, i - 1)) : i \in 1..Len(node.child)}

\* argument paths the operations are driven with: every position of the tree; the
\* first child index past the children of the root (a last index that does not
\* resolve); and a path running through that index (a parent that does not resolve)
ArgPaths(node) ==
    Positions(node, <<>>) \cup {<<Len(node.child)>>, <<Len(node.child), 0>>}

(***************************************************************************)
(* SpecTree: operations on one root                                        *)
(***************************************************************************)
Add ==
    /\ NodeCount(messages) < MaxNodes
    /\ \E path \in ArgPaths(messages), role \in TreeRoles, content \in TreeContents :
          LET r == add(messages, path, role, content) IN
          /\ messages' = r.self
          /\ msg_op' = [op |-> "add", path |-> path,
                        role |-> IF r.res.ok THEN role ELSE NoRole,
                        content |-> IF r.res.ok THEN content ELSE "", res |-> r.res]
    /\ UNCHANGED <<gateVars, toolVars, cleanVars, dialogVars>>

UpdateContent ==
    /\ \E path \in ArgPaths(messages), content \in TreeContents :
          LET r == update_content(messages, path, content) IN
          /\ messages' = r.self
          /\ msg_op' = [op |-> "update_content", path |-> path, role |-> NoRole,
                        content |-> IF r.res.ok THEN content ELSE "", res |-> r.res]
    /\ UNCHANGED <<gateVars, toolVars, cleanVars, dialogVars>>

Delete ==
    /\ \E path \in ArgPaths(messages) :
          LET r == delete(messages, path) IN
          /\ messages' = r.self
          /\ msg_op' = [op |-> "delete", path |-> path, role |-> NoRole, content |-> "",
                        res |-> r.res]
    /\ UNCHANGED <<gateVars, toolVars, cleanVars, dialogVars>>


(***************************************************************************)
(* Concurrency gate and request pipeline (config.rs, chat_base.rs)         *)
(***************************************************************************)
\* number of chats issuing requests
NReq == 2

\* largest parallelism an endpoint is configured with
MaxPar == 1

\* largest number of chunks a byte stream delivers before it ends
MaxChunks == 1

Requests == 1..NReq

\* base_url values of the configured API sources
Endpoints == {"u1", "u2"}

\* HTTP status codes a server answers with
Statuses == {200, 304, 503}

\* what send_request().await yields: Ok(Response with a status) or Err(reqwest::Error)
SendResults ==
    [ok : {TRUE}, status : Statuses, timeout : {FALSE}]
        \cup [ok : {FALSE}, status : {0}, timeout : BOOLEAN]

\* total_tokens values a body reports
TokenValues == {1, 2}

\* what res.json().await yields: not JSON, JSON without usage.total_tokens, JSON with it
Bodies ==
    [json : {FALSE}, has_usage : {FALSE}, total_tokens : {0}]
        \cup [json : {TRUE}, has_usage : {FALSE}, total_tokens : {0}]
        \cup [json : {TRUE}, has_usage : {TRUE}, total_tokens : TokenValues]

\* what one poll of the byte stream yields while it has not ended
ChunkResults == {"chunk", "transport_error", "malformed_line"}

\* ChatError values and the Ok result of an exchange
Ok == [ok |-> TRUE, err |-> "", code |-> 0]

HttpError(code) == [ok |-> FALSE, err |-> "HttpError", code |-> code]

TimeoutError == [ok |-> FALSE, err |-> "TimeoutError", code |-> 0]

UnknownError == [ok |-> FALSE, err |-> "UnknownError", code |-> 0]

ParseResponseError == [ok |-> FALSE, err |-> "ParseResponseError", code |-> 0]

MissingUsageData == [ok |-> FALSE, err |-> "MissingUsageData", code |-> 0]

NoResult == [ok |-> FALSE, err |-> "none", code |-> 0]

NoResponse == [ok |-> FALSE, status |-> 0, timeout |-> FALSE]

\* reqwest::Response::error_for_status: an error for 4xx and 5xx only
is_error_status(status) == status >= 400 /\ status <= 599

\* a chat (BaseChat) that has issued no request; usage: chat_base.rs:140
IdleChat ==
    [pc |-> "Idle", kind |-> "none", base_url |-> "none", sem |-> 0, permit |-> FALSE,
     response |-> NoResponse, chunks |-> 0, released_at |-> "none", result |-> NoResult,
     usage |-> 0]

\* Semaphore::new(parallelism)
NewSemaphore(parallelism) == [capacity |-> parallelism, permits |-> parallelism]

\* dropping an OwnedSemaphorePermit of semaphore s gives one permit back
add_permits(sems, s) == [sems EXCEPT ![s].permits = @ + 1]

NoOp == [op |-> "none", path |-> <<>>, role |-> NoRole, content |-> "", res |-> OkUnit]

\* the parts a specification does not exercise stay as constructed
RestPool == [base_url \in Endpoints |-> 0]

\* the shards of the keys where no specification step takes the lock of a shard
NoShards == [base_url \in Endpoints |-> 0]

RestReq == [r \in Requests |-> IdleChat]

\* the semaphore the first registration of an endpoint put into THREAD_POOL
first_gate(base_url) == IF base_url = "u1" THEN 1 ELSE 2

\* Config::add_api_source has run once for every endpoint before a chat is constructed
ReadyPool == [base_url \in Endpoints |-> first_gate(base_url)]

ReadySemaphores == <<NewSemaphore(MaxPar), NewSemaphore(MaxPar)>>

RestTool ==
    [pc |-> "main", answer |-> <<>>, text_calls |-> <<>>, clean_answer |-> <<>>,
     tasks |-> <<>>, results |-> <<>>, reordered |-> FALSE,
     ret |-> [ok |-> FALSE, err |-> "none"]]

RestClean == [pc |-> "answer", input |-> <<>>, text_calls |-> <<>>, clean_answer |-> <<>>]

RestCtx == [pc |-> "args"]

RestChat == [messages |-> None, message_path |-> <<>>, usage |-> 0]

RestFold == [pc |-> "folding"]

\* Messages::new(role, content) has built the root
InitTree ==
    /\ \E role \in TreeRoles, content \in TreeContents : messages = new(role, content)
    /\ msg_op = NoOp
    /\ THREAD_POOL = RestPool /\ shards = NoShards /\ semaphores = <<>> /\ req = RestReq
    /\ tool = RestTool
    /\ clean = RestClean
    /\ ctx = RestCtx /\ chat = RestChat /\ fold = RestFold

\* Config::add_api_source has run once for every endpoint: THREAD_POOL holds a fresh
\* semaphore for each base_url
InitGate ==
    /\ THREAD_POOL = [base_url \in Endpoints |-> IF base_url = "u1" THEN 1 ELSE 2]
    /\ shards = NoShards
    /\ \E par \in [1..Cardinality(Endpoints) -> 1..MaxPar] :
          semaphores = [s \in 1..Cardinality(Endpoints) |-> NewSemaphore(par[s])]
    /\ req = [r \in Requests |-> IdleChat]
    /\ messages = new(System, "") /\ msg_op = NoOp
    /\ tool = RestTool
    /\ clean = RestClean
    /\ ctx = RestCtx /\ chat = RestChat /\ fold = RestFold

\* get_response / get_stream_response are entered: THREAD_POOL.get(&base_url).unwrap().clone()
Call(r) ==
    /\ req[r].pc = "Idle"
    /\ \E kind \in {"unary", "stream"}, base_url \in Endpoints :
          req' = [req EXCEPT ![r] = [@ EXCEPT !.pc = "AcquiringPermit", !.kind = kind,
                                               !.base_url = base_url,
                                               !.sem = THREAD_POOL[base_url]]]
    /\ UNCHANGED <<THREAD_POOL, shards, semaphores, treeVars, toolVars, cleanVars, dialogVars>>

\* an acquire that does not wait for a free permit
AcquirePermitUnguarded(r) ==
    /\ req[r].pc = "AcquiringPermit"
    /\ semaphores' = [semaphores EXCEPT ![req[r].sem].permits = @ - 1]
    /\ req' = [req EXCEPT ![r] = [@ EXCEPT !.pc = "Sending", !.permit = TRUE]]
    /\ UNCHANGED <<THREAD_POOL, shards, treeVars, toolVars, cleanVars, dialogVars>>

\* acquire_owned().await completes
AcquirePermit(r) ==
    /\ req[r].pc = "AcquiringPermit"
    /\ semaphores[req[r].sem].permits > 0
    /\ semaphores' = [semaphores EXCEPT ![req[r].sem].permits = @ - 1]
    /\ req' = [req EXCEPT ![r] = [@ EXCEPT !.pc = "Sending", !.permit = TRUE]]
    /\ UNCHANGED <<THREAD_POOL, shards, treeVars, toolVars, cleanVars, dialogVars>>

\* send_request(..).await completes with a response or a transport error
SendRequest(r) ==
    /\ req[r].pc = "Sending"
    /\ \E response \in SendResults :
          req' = [req EXCEPT ![r] = [@ EXCEPT !.pc = "GotResponse", !.response = response]]
    /\ UNCHANGED <<THREAD_POOL, shards, semaphores, treeVars, toolVars, cleanVars, dialogVars>>

\* the transport error of a failed send: e.is_timeout() decides
transport_error(response) == IF response.timeout THEN TimeoutError ELSE UnknownError

\* get_response: drop(semaphore_permit) right after the send, before the match
UnaryDropKept(r) ==
    /\ req[r].pc = "GotResponse" /\ req[r].kind = "unary"
    /\ req' = [req EXCEPT ![r] = [@ EXCEPT !.pc = "StatusCheck"]]
    /\ UNCHANGED <<THREAD_POOL, shards, semaphores, treeVars, toolVars, cleanVars, dialogVars>>

UnaryDrop(r) ==
    /\ req[r].pc = "GotResponse" /\ req[r].kind = "unary"
    /\ semaphores' = add_permits(semaphores, req[r].sem)
    /\ req' = [req EXCEPT ![r] = [@ EXCEPT !.pc = "StatusCheck", !.permit = FALSE,
                                           !.released_at = "send"]]
    /\ UNCHANGED <<THREAD_POOL, shards, treeVars, toolVars, cleanVars, dialogVars>>

\* a get_response that sends the request again after a transport error
UnaryStatusRetry(r) ==
    /\ req[r].pc = "StatusCheck"
    /\ LET response == req[r].response IN
       req' = [req EXCEPT ![r] =
                 IF ~response.ok
                 THEN [@ EXCEPT !.pc = "AcquiringPermit", !.response = NoResponse]
                 ELSE IF is_error_status(response.status)
                 THEN [@ EXCEPT !.pc = "Done", !.response = NoResponse,
                                !.result = HttpError(response.status)]
                 ELSE [@ EXCEPT !.pc = "ParsingBody"]]
    /\ UNCHANGED <<THREAD_POOL, shards, semaphores, treeVars, toolVars, cleanVars, dialogVars>>

\* get_response: match response, error_for_status; the Response that passes lives on
\* until res.json() consumes it
UnaryStatus(r) ==
    /\ req[r].pc = "StatusCheck"
    /\ LET response == req[r].response IN
       req' = [req EXCEPT ![r] =
                 IF ~response.ok
                 THEN [@ EXCEPT !.pc = "Done", !.response = NoResponse,
                                !.result = transport_error(response)]
                 ELSE IF is_error_status(response.status)
                 THEN [@ EXCEPT !.pc = "Done", !.response = NoResponse,
                                !.result = HttpError(response.status)]
                 ELSE [@ EXCEPT !.pc = "ParsingBody"]]
    /\ UNCHANGED <<THREAD_POOL, shards, semaphores, treeVars, toolVars, cleanVars, dialogVars>>

\* get_response: res.json().await, then self.usage += usage.total_tokens
UnaryParse(r) ==
    /\ req[r].pc = "ParsingBody"
    /\ \E body \in Bodies :
          req' = [req EXCEPT ![r] =
                    IF ~body.json
                    THEN [@ EXCEPT !.pc = "Done", !.response = NoResponse,
                                   !.result = ParseResponseError]
                    ELSE IF ~body.has_usage
                    THEN [@ EXCEPT !.pc = "Done", !.response = NoResponse,
                                   !.result = MissingUsageData]
                    ELSE [@ EXCEPT !.pc = "Done", !.response = NoResponse,
                                   !.result = Ok, !.usage = @ + body.total_tokens]]
    /\ UNCHANGED <<THREAD_POOL, shards, semaphores, treeVars, toolVars, cleanVars, dialogVars>>

\* a get_stream_response that gives the permit back when it hands the stream out
StreamStatusEarlyRelease(r) ==
    /\ req[r].pc = "GotResponse" /\ req[r].kind = "stream"
    /\ semaphores' = add_permits(semaphores, req[r].sem)
    /\ LET response == req[r].response IN
       req' = [req EXCEPT ![r] =
                 IF ~response.ok
                 THEN [@ EXCEPT !.pc = "Done", !.permit = FALSE, !.response = NoResponse,
                                !.released_at = "send_error",
                                !.result = transport_error(response)]
                 ELSE IF is_error_status(response.status)
                 THEN [@ EXCEPT !.pc = "Done", !.permit = FALSE, !.response = NoResponse,
                                !.released_at = "status_error",
                                !.result = HttpError(response.status)]
                 ELSE [@ EXCEPT !.pc = "StreamReturned", !.permit = FALSE,
                                !.response = NoResponse, !.released_at = "send"]]
    /\ UNCHANGED <<THREAD_POOL, shards, treeVars, toolVars, cleanVars, dialogVars>>

\* a get_stream_response whose HttpError return forgets the permit
StreamStatusLeak(r) ==
    /\ req[r].pc = "GotResponse" /\ req[r].kind = "stream"
    /\ LET response == req[r].response
           returns == ~response.ok
       IN /\ semaphores' = IF returns THEN add_permits(semaphores, req[r].sem)
                           ELSE semaphores
          /\ req' = [req EXCEPT ![r] =
                       IF ~response.ok
                       THEN [@ EXCEPT !.pc = "Done", !.permit = FALSE, !.response = NoResponse,
                                      !.released_at = "send_error",
                                      !.result = transport_error(response)]
                       ELSE IF is_error_status(response.status)
                       THEN [@ EXCEPT !.pc = "Done", !.permit = FALSE, !.response = NoResponse,
                                      !.result = HttpError(response.status)]
                       ELSE [@ EXCEPT !.pc = "StreamReturned", !.response = NoResponse]]
    /\ UNCHANGED <<THREAD_POOL, shards, treeVars, toolVars, cleanVars, dialogVars>>

\* get_stream_response: match response; an Err return drops the local permit, the Ok
\* return moves it to the caller together with the byte stream
StreamStatus(r) ==
    /\ req[r].pc = "GotResponse" /\ req[r].kind = "stream"
    /\ LET response == req[r].response
           returns == ~response.ok \/ is_error_status(response.status)
       IN /\ semaphores' = IF returns THEN add_permits(semaphores, req[r].sem)
                           ELSE semaphores
          /\ req' = [req EXCEPT ![r] =
                       IF ~response.ok
                       THEN [@ EXCEPT !.pc = "Done", !.permit = FALSE, !.response = NoResponse,
                                      !.released_at = "send_error",
                                      !.result = transport_error(response)]
                       ELSE IF is_error_status(response.status)
                       THEN [@ EXCEPT !.pc = "Done", !.permit = FALSE, !.response = NoResponse,
                                      !.released_at = "status_error",
                                      !.result = HttpError(response.status)]
                       ELSE [@ EXCEPT !.pc = "StreamReturned", !.response = NoResponse]]
    /\ UNCHANGED <<THREAD_POOL, shards, treeVars, toolVars, cleanVars, dialogVars>>

\* the caller passes (stream, permit) on to get_content_from_stream_resp
\* (chat_single.rs:116-124, chat_multi.rs:184-189)
StreamPassOn(r) ==
    /\ req[r].pc = "StreamReturned"
    /\ req' = [req EXCEPT ![r] = [@ EXCEPT !.pc = "Draining"]]
    /\ UNCHANGED <<THREAD_POOL, shards, semaphores, treeVars, toolVars, cleanVars, dialogVars>>

\* get_content_from_stream_resp: one item of the stream is folded; a transport error
\* or a line that is not JSON ends the fold through `?`, which drops the permit
StreamChunk(r) ==
    /\ req[r].pc = "Draining"
    /\ req[r].chunks < MaxChunks
    /\ \E item \in ChunkResults :
          /\ semaphores' = IF item = "chunk" THEN semaphores
                           ELSE add_permits(semaphores, req[r].sem)
          /\ req' = [req EXCEPT ![r] =
                       IF item = "chunk" THEN [@ EXCEPT !.chunks = @ + 1]
                       ELSE IF item = "transport_error"
                       THEN [@ EXCEPT !.pc = "Done", !.permit = FALSE,
                                      !.released_at = "chunk_error",
                                      !.result = HttpError(0)]
                       ELSE [@ EXCEPT !.pc = "Done", !.permit = FALSE,
                                      !.released_at = "chunk_error",
                                      !.result = ParseResponseError]]
    /\ UNCHANGED <<THREAD_POOL, shards, treeVars, toolVars, cleanVars, dialogVars>>

\* get_content_from_stream_resp: the stream has ended, drop(semaphore_permit), Ok(content)
StreamEnd(r) ==
    /\ req[r].pc = "Draining"
    /\ semaphores' = add_permits(semaphores, req[r].sem)
    /\ req' = [req EXCEPT ![r] = [@ EXCEPT !.pc = "Done", !.permit = FALSE,
                                           !.released_at = "stream_end", !.result = Ok]]
    /\ UNCHANGED <<THREAD_POOL, shards, treeVars, toolVars, cleanVars, dialogVars>>

NextGate ==
    \/ \E r \in Requests : Call(r)
    \/ \E r \in Requests : AcquirePermit(r)
    \/ \E r \in Requests : SendRequest(r)
    \/ \E r \in Requests : UnaryDrop(r)
    \/ \E r \in Requests : UnaryStatus(r)
    \/ \E r \in Requests : UnaryParse(r)
    \/ \E r \in Requests : StreamStatus(r)
    \/ \E r \in Requests : StreamPassOn(r)
    \/ \E r \in Requests : StreamChunk(r)
    \/ \E r \in Requests : StreamEnd(r)

(***************************************************************************)
(* Texts, tag extraction and the clean answer                              *)
(* (tool_schema.rs:63-70, chat_single.rs:304-325)                          *)
(*                                                                         *)
(* A text is a sequence of tokens; the two tags are one token each, so a   *)
(* token sequence stands for the string that concatenates its tokens.      *)
(***************************************************************************)
\* longest text the extraction is applied to
MaxLen == 5

OPEN == "<ToolUse>"

CLOSE == "</ToolUse>"

\* the pieces a text is made of: the tags, a blank, a line break, a character
Tokens == {OPEN, CLOSE, " ", "\n", "1"}

Texts == UNION {[1..n -> Tokens] : n \in 0..MaxLen}

Whitespace == {" ", "\n"}

\* str::trim
RECURSIVE trim_start(_)
trim_start(t) == IF t # <<>> /\ Head(t) \in Whitespace THEN trim_start(Tail(t)) ELSE t

RECURSIVE trim_end(_)
trim_end(t) ==
    IF t # <<>> /\ t[Len(t)] \in Whitespace THEN trim_end(SubSeq(t, 1, Len(t) - 1)) ELSE t

trim(t) == trim_end(trim_start(t))

\* position of the first token `tok` of `input` at or after position i, 0 when none
RECURSIVE find(_, _, _)
find(input, tok, i) ==
    IF i > Len(input) THEN 0
    ELSE IF input[i] = tok THEN i
    ELSE find(input, tok, i + 1)

\* position of the last token `tok` of `input` at or after position i, 0 when none
RECURSIVE rfind(_, _, _)
rfind(input, tok, i) ==
    IF i > Len(input) THEN 0
    ELSE LET later == rfind(input, tok, i + 1) IN
         IF later # 0 THEN later ELSE IF input[i] = tok THEN i ELSE 0

\* a greedy pattern <ToolUse>(.*)</ToolUse>: a match runs to the last closing tag
captures_iter_greedy(input, i) ==
    LET from == find(input, OPEN, i)
        to == IF from = 0 THEN 0 ELSE rfind(input, CLOSE, from + 1)
    IN IF from = 0 \/ to = 0 THEN <<>> ELSE <<[from |-> from, to |-> to]>>

\* Regex (?s)<ToolUse>(.*?)</ToolUse>, captures_iter: the matches from position i on,
\* leftmost first, each ending at the nearest closing tag, as [from, to] token spans
RECURSIVE captures_iter(_, _)
captures_iter(input, i) ==
    LET from == find(input, OPEN, i)
        to == IF from = 0 THEN 0 ELSE find(input, CLOSE, from + 1)
    IN IF from = 0 \/ to = 0 THEN <<>>
       ELSE <<[from |-> from, to |-> to]>> \o captures_iter(input, to + 1)

extract_tool_uses(input) ==
    LET caps == captures_iter(input, 1) IN
    [k \in 1..Len(caps) |-> trim(SubSeq(input, caps[k].from + 1, caps[k].to - 1))]

\* whether `pat` occurs in `acc` at position 1
starts_with(acc, pat) == Len(acc) >= Len(pat) /\ SubSeq(acc, 1, Len(pat)) = pat

\* str::replace(pat, ""): every non-overlapping occurrence of pat, left to right
RECURSIVE replace(_, _)
replace(acc, pat) ==
    IF acc = <<>> THEN <<>>
    ELSE IF starts_with(acc, pat) THEN replace(SubSeq(acc, Len(pat) + 1, Len(acc)), pat)
    ELSE <<Head(acc)>> \o replace(Tail(acc), pat)

\* text_calls.iter().fold(answer, |acc, call| acc.replace("<ToolUse>{call}</ToolUse>", ""))
RECURSIVE clean_answer_fold(_, _)
clean_answer_fold(acc, text_calls) ==
    IF text_calls = <<>> THEN acc
    ELSE clean_answer_fold(replace(acc, <<OPEN>> \o Head(text_calls) \o <<CLOSE>>),
                           Tail(text_calls))

InitClean ==
    /\ \E input \in Texts :
          clean = [pc |-> "answer", input |-> input, text_calls |-> <<>>,
                   clean_answer |-> <<>>]
    /\ messages = new(System, "") /\ msg_op = NoOp
    /\ THREAD_POOL = RestPool /\ shards = NoShards /\ semaphores = <<>> /\ req = RestReq
    /\ tool = RestTool
    /\ ctx = RestCtx /\ chat = RestChat /\ fold = RestFold

\* chat_single.rs:304
ExtractToolUses ==
    /\ clean.pc = "answer"
    /\ clean' = [clean EXCEPT !.pc = "extracted", !.text_calls = extract_tool_uses(clean.input)]
    /\ UNCHANGED <<treeVars, gateVars, toolVars, dialogVars>>

\* chat_single.rs:311-316: no call found, the answer is returned as it is
ReturnOriginal ==
    /\ clean.pc = "extracted"
    /\ clean.text_calls = <<>>
    /\ clean' = [clean EXCEPT !.pc = "returned", !.clean_answer = clean.input]
    /\ UNCHANGED <<treeVars, gateVars, toolVars, dialogVars>>

\* chat_single.rs:320-324
CleanAnswer ==
    /\ clean.pc = "extracted"
    /\ clean.text_calls # <<>>
    /\ clean' = [clean EXCEPT !.pc = "returned",
                              !.clean_answer = clean_answer_fold(clean.input, clean.text_calls)]
    /\ UNCHANGED <<treeVars, gateVars, toolVars, dialogVars>>

NextClean == ExtractToolUses \/ ReturnOriginal \/ CleanAnswer

(***************************************************************************)
(* Tool dispatch (chat_single.rs:194-389, tool_schema.rs:36-52)            *)
(***************************************************************************)
\* largest number of tool tags in one answer
MaxTags == 3

\* inner texts of the tags of an answer
TagContents == {ToString(k) : k \in 1..MaxTags}

\* the answers of the main exchange: "x", then up to MaxTags tags, which carry their
\* number in the answer or all the same text
Answers ==
    UNION {{<<"x">> \o [k \in 1..(3 * n) |->
                           IF k % 3 = 1 THEN OPEN
                           ELSE IF k % 3 = 0 THEN CLOSE
                           ELSE IF numbered THEN ToString((k + 1) \div 3)
                           ELSE "1"] :
               numbered \in BOOLEAN} : n \in 0..MaxTags}

\* serde_json::Value, one record per kind of value. A float is the decimal that
\* prints it: its sign, its digits without zeros at either end ("0" for zero) and
\* the power of ten of its last digit
JsonNull == [t |-> "null"]

JsonInteger(n) == [t |-> "integer", n |-> n]

JsonBool(b) == [t |-> "bool", b |-> b]

JsonFloat(neg, digits, exp) == [t |-> "float", neg |-> neg, digits |-> digits, exp |-> exp]

JsonString(str) == [t |-> "string", str |-> str]

JsonArray(items) == [t |-> "array", items |-> items]

JsonObject(entries) == [t |-> "object", entries |-> entries]

\* the characters U+0001 .. U+005F in the order of their code points
LowChars ==
    "\t\n\f\r !\"#$%&'()*+,-./0123456789:;<=>?@ABCDEFGHIJKLMNOPQRSTUVWXYZ[\\]^_"

\* U+0060: a string takes it only with an apostrophe after it, so it is cut out of one
GraveAccent == SubSeq("`'", 1, 1)

\* the characters U+0061 .. U+007F in the order of their code points
HighChars == "abcdefghijklmnopqrstuvwxyz{|}~"

\* the character of a code point; only U+0001 .. U+007F have one here
chr(n) ==
    CASE n \in 1..95 -> SubSeq(LowChars, n, n)
      [] n = 96 -> GraveAccent
      [] n \in 97..127 -> SubSeq(HighChars, n - 96, n - 96)

\* the code points that have a character here, each with its character
CodePoints == [n \in 1..127 |-> chr(n)]

\* the code point of a character of U+0001 .. U+007F
ord(c) == CHOOSE n \in DOMAIN CodePoints : CodePoints[n] = c

\* the characters U+0001 .. U+001F
ControlChars == {CodePoints[n] : n \in 1..31}

\* the characters below U+0020
is_control(c) == c \in ControlChars

\* a value outside the part of the code's domain that is modelled: it has no term,
\* and evaluating it stops the evaluation
unmodelled == CHOOSE v \in {} : TRUE

Digits == {"0", "1", "2", "3", "4", "5", "6", "7", "8", "9"}

HexDigits == Digits \cup {"a", "b", "c", "d", "e", "f", "A", "B", "C", "D", "E", "F"}

digit_value(c) ==
    CASE c = "0" -> 0 [] c = "1" -> 1 [] c = "2" -> 2 [] c = "3" -> 3 [] c = "4" -> 4
      [] c = "5" -> 5 [] c = "6" -> 6 [] c = "7" -> 7 [] c = "8" -> 8 [] c = "9" -> 9

\* the character of s at position i, "" past its end
char_at(s, i) == IF i >= 1 /\ i <= Len(s) THEN SubSeq(s, i, i) ELSE ""

\* decode_hex_val
hex_value(c) ==
    CHOOSE n \in 0..15 : \/ char_at("0123456789abcdef", n + 1) = c
                         \/ char_at("0123456789ABCDEF", n + 1) = c

\* `{:x}` of a number: lowercase hexadecimal without padding
RECURSIVE hex(_)
hex(n) ==
    (IF n >= 16 THEN hex(n \div 16) ELSE "") \o char_at("0123456789abcdef", (n % 16) + 1)

\* a parse result: the value and the position of the next unread character (1-based),
\* or the ErrorCode of serde_json with the line and the column of its Display
Parsed(val, pos) ==
    [ok |-> TRUE, val |-> val, pos |-> pos, code |-> "", line |-> 0, column |-> 0]

syntax(code, line, column) ==
    [ok |-> FALSE, val |-> JsonNull, pos |-> 0, code |-> code, line |-> line,
     column |-> column]

\* the index after the last line break among the first `index` bytes of s, 0 without one
RECURSIVE start_of_line(_, _)
start_of_line(s, index) ==
    IF index = 0 THEN 0
    ELSE IF char_at(s, index) = "\n" THEN index
    ELSE start_of_line(s, index - 1)

\* the number of line breaks among the first `index` bytes of s
RECURSIVE line_breaks(_, _)
line_breaks(s, index) ==
    IF index = 0 THEN 0
    ELSE line_breaks(s, index - 1) + (IF char_at(s, index) = "\n" THEN 1 ELSE 0)

\* SliceRead::position_of_index
position_of_index(s, index) ==
    [line |-> 1 + line_breaks(s, start_of_line(s, index)),
     column |-> index - start_of_line(s, index)]

\* Deserializer::error with position i of the next unread character: the position of
\* the bytes read so far
error(code, s, i) ==
    LET position == position_of_index(s, i - 1) IN
    syntax(code, position.line, position.column)

\* Deserializer::peek_error: the position of the byte that was peeked at
peek_error(code, s, i) ==
    LET position == position_of_index(s, IF i < Len(s) THEN i ELSE Len(s)) IN
    syntax(code, position.line, position.column)

\* Display of ErrorCode
ErrorCode_fmt(code) ==
    CASE code = "EofWhileParsingList" -> "EOF while parsing a list"
      [] code = "EofWhileParsingObject" -> "EOF while parsing an object"
      [] code = "EofWhileParsingString" -> "EOF while parsing a string"
      [] code = "EofWhileParsingValue" -> "EOF while parsing a value"
      [] code = "ExpectedColon" -> "expected " \o GraveAccent \o ":" \o GraveAccent
      [] code = "ExpectedListCommaOrEnd"
            -> "expected " \o GraveAccent \o "," \o GraveAccent \o " or "
                   \o GraveAccent \o "]" \o GraveAccent
      [] code = "ExpectedObjectCommaOrEnd"
            -> "expected " \o GraveAccent \o "," \o GraveAccent \o " or "
                   \o GraveAccent \o "}" \o GraveAccent
      [] code = "ExpectedSomeIdent" -> "expected ident"
      [] code = "ExpectedSomeValue" -> "expected value"
      [] code = "InvalidEscape" -> "invalid escape"
      [] code = "InvalidNumber" -> "invalid number"
      [] code = "NumberOutOfRange" -> "number out of range"
      [] code = "ControlCharacterWhileParsingString"
            -> "control character (\\u0000-\\u001F) found while parsing a string"
      [] code = "KeyMustBeAString" -> "key must be a string"
      [] code = "LoneLeadingSurrogateInHexEscape" -> "lone leading surrogate in hex escape"
      [] code = "TrailingComma" -> "trailing comma"
      [] code = "TrailingCharacters" -> "trailing characters"
      [] code = "UnexpectedEndOfHexEscape" -> "unexpected end of hex escape"
      [] code = "RecursionLimitExceeded" -> "recursion limit exceeded"

\* Display of serde_json::Error
Error_fmt(e) ==
    ErrorCode_fmt(e.code) \o " at line " \o ToString(e.line) \o " column "
        \o ToString(e.column)

\* parse_whitespace: the position after the JSON whitespace that starts at i
RECURSIVE skip_ws(_, _)
skip_ws(s, i) ==
    IF char_at(s, i) \in {" ", "\t", "\n", "\r"} THEN skip_ws(s, i + 1) ELSE i

\* the position after the digits that start at i
RECURSIVE skip_digits(_, _)
skip_digits(s, i) == IF char_at(s, i) \in Digits THEN skip_digits(s, i + 1) ELSE i

\* the number the digits of s write, after the digits read into acc
RECURSIVE digits_value(_, _)
digits_value(s, acc) ==
    IF s = "" THEN acc
    ELSE digits_value(SubSeq(s, 2, Len(s)), 10 * acc + digit_value(SubSeq(s, 1, 1)))

RECURSIVE strip_leading_zeros(_)
strip_leading_zeros(digits) ==
    IF digits # "" /\ SubSeq(digits, 1, 1) = "0"
    THEN strip_leading_zeros(SubSeq(digits, 2, Len(digits)))
    ELSE digits

RECURSIVE zeros(_)
zeros(n) == IF n <= 0 THEN "" ELSE "0" \o zeros(n - 1)

\* the float of the digits times ten to the exponent, the zeros at the end of the
\* digits moved into the exponent
RECURSIVE normalized(_, _, _)
normalized(neg, digits, exp) ==
    IF SubSeq(digits, Len(digits), Len(digits)) = "0"
    THEN normalized(neg, SubSeq(digits, 1, Len(digits) - 1), exp + 1)
    ELSE JsonFloat(neg, digits, exp)

\* Deserializer::f64_from_parts at position i with the significand as its digits
\* without leading zeros: significand as f64, then one multiplication or division by
\* a power of ten. Both steps are exact, and the result is the f64 that prints as the
\* decimal, for significands of up to 15 digits and exponents of -22 to 22; zero, the
\* results beyond f64::MAX and those that round to zero are as the code gives them;
\* the floats in between are not modelled
f64_from_parts(s, i, positive, significand, exponent) ==
    LET n == Len(significand) IN
    IF n = 0 THEN Parsed(JsonFloat(~positive, "0", 0), i)
    ELSE IF n > 15 THEN unmodelled
    ELSE IF exponent > 308 \/ n - 1 + exponent >= 309 THEN error("NumberOutOfRange", s, i)
    ELSE IF n + exponent <= -330 THEN Parsed(JsonFloat(~positive, "0", 0), i)
    ELSE IF exponent >= -22 /\ exponent <= 22
    THEN Parsed(normalized(~positive, significand, exponent), i)
    ELSE unmodelled

\* the loop of parse_exponent from position i with the exponent read so far: the
\* exponent and the end of its digits, or the digit with which it passes i32::MAX
RECURSIVE parse_exponent_digits(_, _, _)
parse_exponent_digits(s, i, exp) ==
    LET c == char_at(s, i) IN
    IF c \notin Digits THEN [overflow |-> FALSE, exp |-> exp, pos |-> i]
    ELSE IF /\ exp >= MaxI32 \div 10
            /\ (exp > MaxI32 \div 10 \/ digit_value(c) > MaxI32 % 10)
    THEN [overflow |-> TRUE, exp |-> exp, pos |-> i + 1]
    ELSE parse_exponent_digits(s, i + 1, 10 * exp + digit_value(c))

\* Deserializer::parse_exponent with the `e` at position i
parse_exponent(s, i, positive, significand, starting_exp) ==
    LET positive_exp == char_at(s, i + 1) # "-"
        first == IF char_at(s, i + 1) \in {"+", "-"} THEN i + 2 ELSE i + 1
    IN  IF char_at(s, first) = "" THEN error("EofWhileParsingValue", s, first)
        ELSE IF char_at(s, first) \notin Digits THEN error("InvalidNumber", s, first + 1)
        ELSE LET read == parse_exponent_digits(s, first, 0) IN
             IF read.overflow
             THEN \* parse_exponent_overflow
                  IF significand # "" /\ positive_exp
                  THEN error("NumberOutOfRange", s, read.pos)
                  ELSE Parsed(JsonFloat(~positive, "0", 0), skip_digits(s, read.pos))
             ELSE LET final_exp ==
                          IF positive_exp THEN starting_exp + read.exp
                          ELSE IF read.exp > MaxI32 + starting_exp THEN (-MaxI32) - 1
                          ELSE starting_exp - read.exp
                  IN  f64_from_parts(s, read.pos, positive, significand, final_exp)

\* Deserializer::parse_integer and parse_number with parse_decimal: a JSON number
\* whose `-` or first digit is at position i. An integer has to fit nine digits
\* here; a longer one is not modelled
parse_number(s, i) ==
    LET positive == char_at(s, i) # "-"
        start == IF positive THEN i ELSE i + 1
        first == char_at(s, start)
        int_end == IF first = "0" THEN start + 1 ELSE skip_digits(s, start)
        frac_end == skip_digits(s, int_end + 1)
        integer == strip_leading_zeros(SubSeq(s, start, int_end - 1))
        significand == strip_leading_zeros(SubSeq(s, start, int_end - 1)
                                               \o SubSeq(s, int_end + 1, frac_end - 1))
    IN  IF first = "" THEN error("EofWhileParsingValue", s, start)
        ELSE IF first \notin Digits THEN error("InvalidNumber", s, start + 1)
        ELSE IF first = "0" /\ char_at(s, start + 1) \in Digits
        THEN peek_error("InvalidNumber", s, start + 1)
        ELSE IF char_at(s, int_end) = "."
        THEN \* parse_decimal
             IF frac_end = int_end + 1
             THEN peek_error(IF char_at(s, frac_end) = "" THEN "EofWhileParsingValue"
                             ELSE "InvalidNumber", s, frac_end)
             ELSE IF char_at(s, frac_end) \in {"e", "E"}
             THEN parse_exponent(s, frac_end, positive, significand,
                                 0 - (frac_end - int_end - 1))
             ELSE f64_from_parts(s, frac_end, positive, significand,
                                 0 - (frac_end - int_end - 1))
        ELSE IF char_at(s, int_end) \in {"e", "E"}
        THEN parse_exponent(s, int_end, positive, integer, 0)
        ELSE IF Len(integer) > 9 THEN unmodelled
        ELSE IF positive THEN Parsed(JsonInteger(digits_value(integer, 0)), int_end)
        ELSE IF integer = "" THEN Parsed(JsonFloat(TRUE, "0", 0), int_end)
        ELSE Parsed(JsonInteger(0 - digits_value(integer, 0)), int_end)

\* SliceRead::decode_hex_escape at position i: the number of the four hex digits
decode_hex_escape(s, i) ==
    IF i + 3 > Len(s) THEN error("EofWhileParsingString", s, Len(s) + 1)
    ELSE IF \E k \in 0..3 : char_at(s, i + k) \notin HexDigits
    THEN error("InvalidEscape", s, i + 4)
    ELSE [ok |-> TRUE, pos |-> i + 4,
          n |-> 4096 * hex_value(char_at(s, i)) + 256 * hex_value(char_at(s, i + 1))
                   + 16 * hex_value(char_at(s, i + 2)) + hex_value(char_at(s, i + 3))]

\* the ESCAPE table of read.rs: the characters at which the scan of a string stops
ESCAPE(c) == c \in {"\"", "\\"} \/ is_control(c)

\* what an escape adds to the scratch buffer, with the position after the escape
Unescaped(str, pos) == [ok |-> TRUE, str |-> str, pos |-> pos]

\* parse_unicode_escape with the code of a leading surrogate read (n1) and the code of
\* the escape that follows it (n2)
trailing_surrogate(s, n1, n2) ==
    IF ~n2.ok THEN n2
    ELSE IF n2.n < 56320 \/ n2.n > 57343
    THEN error("LoneLeadingSurrogateInHexEscape", s, n2.pos)
    ELSE Unescaped(chr(65536 + 1024 * (n1.n - 55296) + (n2.n - 56320)), n2.pos)

\* parse_unicode_escape with the code of the first escape read (n1): the character of
\* the code point; a leading surrogate has to be followed by the escape of a trailing
\* one
leading_surrogate(s, n1) ==
    IF ~n1.ok THEN n1
    ELSE IF n1.n >= 56320 /\ n1.n <= 57343
    THEN error("LoneLeadingSurrogateInHexEscape", s, n1.pos)
    ELSE IF n1.n < 55296 \/ n1.n > 56319 THEN Unescaped(chr(n1.n), n1.pos)
    ELSE IF char_at(s, n1.pos) = "" THEN error("EofWhileParsingString", s, n1.pos)
    ELSE IF char_at(s, n1.pos) # "\\" THEN error("UnexpectedEndOfHexEscape", s, n1.pos + 1)
    ELSE IF char_at(s, n1.pos + 1) = "" THEN error("EofWhileParsingString", s, n1.pos + 1)
    ELSE IF char_at(s, n1.pos + 1) # "u"
    THEN error("UnexpectedEndOfHexEscape", s, n1.pos + 2)
    ELSE trailing_surrogate(s, n1, decode_hex_escape(s, n1.pos + 2))

\* parse_unicode_escape after the u of the escape (position i)
parse_unicode_escape(s, i) == leading_surrogate(s, decode_hex_escape(s, i))

\* parse_escape after the backslash (position i)
parse_escape(s, i) ==
    LET ch == char_at(s, i) IN
    IF ch = "" THEN error("EofWhileParsingString", s, i)
    ELSE IF ch \in {"\"", "\\", "/"} THEN Unescaped(ch, i + 1)
    ELSE IF ch = "b" THEN Unescaped(CodePoints[8], i + 1)
    ELSE IF ch = "f" THEN Unescaped("\f", i + 1)
    ELSE IF ch = "n" THEN Unescaped("\n", i + 1)
    ELSE IF ch = "r" THEN Unescaped("\r", i + 1)
    ELSE IF ch = "t" THEN Unescaped("\t", i + 1)
    ELSE IF ch = "u" THEN parse_unicode_escape(s, i + 1)
    ELSE error("InvalidEscape", s, i + 1)

\* SliceRead::parse_str: the text of a JSON string whose opening quote is before i,
\* the characters up to the closing quote with the escapes resolved, after the text
\* in acc
RECURSIVE parse_string(_, _, _)
RECURSIVE push_escape(_, _, _)

\* parse_str after parse_escape: the error of the escape, or its character put after
\* the text read and the rest of the string
push_escape(s, str, escape) ==
    IF ~escape.ok THEN escape
    ELSE parse_string(s, escape.pos, str \o escape.str)

parse_string(s, i, acc) ==
    LET j == CHOOSE j \in i..(Len(s) + 1) :
                /\ j <= Len(s) => ESCAPE(char_at(s, j))
                /\ \A k \in i..(j - 1) : ~ESCAPE(char_at(s, k))
        str == acc \o SubSeq(s, i, j - 1)
    IN  IF j > Len(s) THEN error("EofWhileParsingString", s, j)
        ELSE IF char_at(s, j) = "\"" THEN Parsed(JsonString(str), j + 1)
        ELSE IF char_at(s, j) # "\\"
        THEN error("ControlCharacterWhileParsingString", s, j + 1)
        ELSE push_escape(s, str, parse_escape(s, j + 1))

\* Deserializer::parse_ident after the first letter: the rest of null, true or false
RECURSIVE parse_ident(_, _, _, _)
parse_ident(s, i, ident, val) ==
    IF ident = "" THEN Parsed(val, i)
    ELSE IF char_at(s, i) = "" THEN error("EofWhileParsingValue", s, i)
    ELSE IF char_at(s, i) # SubSeq(ident, 1, 1) THEN error("ExpectedSomeIdent", s, i + 1)
    ELSE parse_ident(s, i + 1, SubSeq(ident, 2, Len(ident)), val)

\* the order of str on the bytes of its characters
RECURSIVE str_lt(_, _)
str_lt(a, b) ==
    IF b = "" THEN FALSE
    ELSE IF a = "" THEN TRUE
    ELSE IF SubSeq(a, 1, 1) # SubSeq(b, 1, 1) THEN ord(SubSeq(a, 1, 1)) < ord(SubSeq(b, 1, 1))
    ELSE str_lt(SubSeq(a, 2, Len(a)), SubSeq(b, 2, Len(b)))

\* Map::insert on the BTreeMap of an object: the entries are kept in the order of
\* their keys, and a key that is there gets the new value
RECURSIVE insert(_, _, _)
insert(entries, key, value) ==
    IF entries = <<>> THEN <<[key |-> key, value |-> value]>>
    ELSE IF Head(entries).key = key THEN <<[key |-> key, value |-> value]>> \o Tail(entries)
    ELSE IF str_lt(key, Head(entries).key)
    THEN <<[key |-> key, value |-> value]>> \o entries
    ELSE <<Head(entries)>> \o insert(Tail(entries), key, value)

RECURSIVE deserialize_any(_, _, _)
RECURSIVE parse_items(_, _, _, _)
RECURSIVE parse_entries(_, _, _, _)
RECURSIVE parse_entry(_, _, _, _)
RECURSIVE push_item(_, _, _, _)
RECURSIVE next_value_seed(_, _, _, _)
RECURSIVE insert_entry(_, _, _, _, _)

\* visit_seq after next_element_seed: the error of the element, or the element pushed
\* and the rest of the array
push_item(s, item, acc, remaining_depth) ==
    IF ~item.ok THEN item
    ELSE parse_items(s, item.pos, Append(acc, item.val), remaining_depth)

\* SeqAccess::next_element_seed in the loop of visit_seq, then end_seq: the elements
\* of an array from position i, after the elements in acc
parse_items(s, i, acc, remaining_depth) ==
    LET j == skip_ws(s, i)
        k == IF char_at(s, j) = "," /\ acc # <<>> THEN skip_ws(s, j + 1) ELSE j
    IN  IF char_at(s, j) = "" THEN peek_error("EofWhileParsingList", s, j)
        ELSE IF char_at(s, j) = "]" THEN Parsed(JsonArray(acc), j + 1)
        ELSE IF char_at(s, j) # "," /\ acc # <<>>
        THEN peek_error("ExpectedListCommaOrEnd", s, j)
        ELSE IF char_at(s, k) = "" THEN peek_error("EofWhileParsingValue", s, k)
        ELSE IF char_at(s, k) = "]" THEN peek_error("TrailingComma", s, k)
        ELSE push_item(s, deserialize_any(s, k, remaining_depth), acc, remaining_depth)

\* visit_map after next_value_seed: the error of the value, or the entry inserted and
\* the rest of the object
insert_entry(s, key, value, acc, remaining_depth) ==
    IF ~value.ok THEN value
    ELSE parse_entries(s, value.pos, insert(acc, key, value.val), remaining_depth)

\* MapAccess::next_value_seed after the key was read: the colon (parse_object_colon)
\* and the value
next_value_seed(s, key, acc, remaining_depth) ==
    IF ~key.ok THEN key
    ELSE LET colon == skip_ws(s, key.pos) IN
         IF char_at(s, colon) = "" THEN peek_error("EofWhileParsingObject", s, colon)
         ELSE IF char_at(s, colon) # ":" THEN peek_error("ExpectedColon", s, colon)
         ELSE insert_entry(s, key.val.str, deserialize_any(s, colon + 1, remaining_depth),
                           acc, remaining_depth)

\* MapAccess::next_key_seed after the comma, then next_value_seed: the entry whose
\* key starts at position k
parse_entry(s, k, acc, remaining_depth) ==
    IF char_at(s, k) = "" THEN peek_error("EofWhileParsingValue", s, k)
    ELSE IF char_at(s, k) = "}" THEN peek_error("TrailingComma", s, k)
    ELSE IF char_at(s, k) # "\"" THEN peek_error("KeyMustBeAString", s, k)
    ELSE next_value_seed(s, parse_string(s, k + 1, ""), acc, remaining_depth)

\* MapAccess::next_key_seed in the loop of visit_map, then end_map: the entries of an
\* object from position i, after the entries in acc
parse_entries(s, i, acc, remaining_depth) ==
    LET j == skip_ws(s, i) IN
    IF char_at(s, j) = "" THEN peek_error("EofWhileParsingObject", s, j)
    ELSE IF char_at(s, j) = "}" THEN Parsed(JsonObject(acc), j + 1)
    ELSE IF acc = <<>> THEN parse_entry(s, j, acc, remaining_depth)
    ELSE IF char_at(s, j) = "," THEN parse_entry(s, skip_ws(s, j + 1), acc, remaining_depth)
    ELSE peek_error("ExpectedObjectCommaOrEnd", s, j)

\* Deserializer::deserialize_any for a Value: one JSON value after the whitespace at
\* i; an array or an object takes one of the remaining levels of nesting
deserialize_any(s, i, remaining_depth) ==
    LET j == skip_ws(s, i)
        c == char_at(s, j)
    IN  IF c = "" THEN peek_error("EofWhileParsingValue", s, j)
        ELSE IF c = "n" THEN parse_ident(s, j + 1, "ull", JsonNull)
        ELSE IF c = "t" THEN parse_ident(s, j + 1, "rue", JsonBool(TRUE))
        ELSE IF c = "f" THEN parse_ident(s, j + 1, "alse", JsonBool(FALSE))
        ELSE IF c = "-" \/ c \in Digits THEN parse_number(s, j)
        ELSE IF c = "\"" THEN parse_string(s, j + 1, "")
        ELSE IF c \in {"[", "{"}
        THEN IF remaining_depth - 1 = 0 THEN peek_error("RecursionLimitExceeded", s, j)
             ELSE IF c = "[" THEN parse_items(s, j + 1, <<>>, remaining_depth - 1)
             ELSE parse_entries(s, j + 1, <<>>, remaining_depth - 1)
        ELSE peek_error("ExpectedSomeValue", s, j)

\* one JSON value after the whitespace at i, read by a new Deserializer
\* (remaining_depth: 128)
parse_value(s, i) == deserialize_any(s, i, 128)

\* serde_json::from_str::<Value>: one JSON value between optional whitespace, and
\* nothing after it (Deserializer::end)
from_str(s) ==
    LET parsed == parse_value(s, 1) IN
    IF ~parsed.ok THEN parsed
    ELSE IF skip_ws(s, parsed.pos) <= Len(s)
    THEN peek_error("TrailingCharacters", s, skip_ws(s, parsed.pos))
    ELSE parsed

\* format_escaped_str_contents: the escapes serde_json writes inside a JSON string
RECURSIVE escape_str(_)
escape_str(s) ==
    IF s = "" THEN ""
    ELSE LET c == SubSeq(s, 1, 1)
             e == IF c = "\"" THEN "\\\""
                  ELSE IF c = "\\" THEN "\\\\"
                  ELSE IF c = CodePoints[8] THEN "\\b"
                  ELSE IF c = "\f" THEN "\\f"
                  ELSE IF c = "\n" THEN "\\n"
                  ELSE IF c = "\r" THEN "\\r"
                  ELSE IF c = "\t" THEN "\\t"
                  ELSE IF is_control(c)
                  THEN "\\u00" \o (IF ord(c) < 16 THEN "0" ELSE "") \o hex(ord(c))
                  ELSE c
         IN  e \o escape_str(SubSeq(s, 2, Len(s)))

\* the format of a finite f64, as serde_json writes a float: the shortest digits, as a
\* decimal up to sixteen digits before the point and four zeros after it, otherwise
\* with an exponent, which carries its sign
format_finite(v) ==
    LET length == Len(v.digits)
        kk == length + v.exp
        sign == IF v.neg THEN "-" ELSE ""
        exponent == (IF kk - 1 >= 0 THEN "+" ELSE "") \o ToString(kk - 1)
    IN  IF v.digits = "0" THEN sign \o "0.0"
        ELSE IF 0 <= v.exp /\ kk <= 16 THEN sign \o v.digits \o zeros(v.exp) \o ".0"
        ELSE IF 0 < kk /\ kk <= 16
        THEN sign \o SubSeq(v.digits, 1, kk) \o "." \o SubSeq(v.digits, kk + 1, length)
        ELSE IF -5 < kk /\ kk <= 0 THEN sign \o "0." \o zeros(0 - kk) \o v.digits
        ELSE IF length = 1 THEN sign \o v.digits \o "e" \o exponent
        ELSE sign \o SubSeq(v.digits, 1, 1) \o "." \o SubSeq(v.digits, 2, length)
                 \o "e" \o exponent

RECURSIVE to_string(_)
RECURSIVE compact_items(_, _)
RECURSIVE compact_entries(_, _)

\* the elements of an array from the k-th on, with commas between them
compact_items(items, k) ==
    IF k > Len(items) THEN ""
    ELSE to_string(items[k]) \o (IF k < Len(items) THEN "," ELSE "")
            \o compact_items(items, k + 1)

\* the entries of an object from the k-th on, with commas between them
compact_entries(entries, k) ==
    IF k > Len(entries) THEN ""
    ELSE "\"" \o escape_str(entries[k].key) \o "\":" \o to_string(entries[k].value)
            \o (IF k < Len(entries) THEN "," ELSE "") \o compact_entries(entries, k + 1)

\* serde_json::Value::to_string: the Display of a Value, its JSON text with the
\* CompactFormatter
to_string(value) ==
    IF value.t = "null" THEN "null"
    ELSE IF value.t = "bool" THEN (IF value.b THEN "true" ELSE "false")
    ELSE IF value.t = "integer" THEN ToString(value.n)
    ELSE IF value.t = "float" THEN format_finite(value)
    ELSE IF value.t = "string" THEN "\"" \o escape_str(value.str) \o "\""
    ELSE IF value.t = "array" THEN "[" \o compact_items(value.items, 1) \o "]"
    ELSE "{" \o compact_entries(value.entries, 1) \o "}"

RECURSIVE spaces(_)
spaces(n) == IF n <= 0 THEN "" ELSE " " \o spaces(n - 1)

RECURSIVE pretty(_, _)
RECURSIVE pretty_items(_, _, _)
RECURSIVE pretty_entries(_, _, _)

\* the elements of an array from the k-th on, one per line at the indentation
pretty_items(items, k, indent) ==
    IF k > Len(items) THEN ""
    ELSE spaces(indent) \o pretty(items[k], indent)
            \o (IF k < Len(items) THEN ",\n" ELSE "\n")
            \o pretty_items(items, k + 1, indent)

\* the entries of an object from the k-th on, one per line at the indentation
pretty_entries(entries, k, indent) ==
    IF k > Len(entries) THEN ""
    ELSE spaces(indent) \o "\"" \o escape_str(entries[k].key) \o "\": "
            \o pretty(entries[k].value, indent)
            \o (IF k < Len(entries) THEN ",\n" ELSE "\n")
            \o pretty_entries(entries, k + 1, indent)

\* the PrettyFormatter of serde_json at an indentation: two spaces per level
pretty(v, indent) ==
    IF v.t = "null" THEN "null"
    ELSE IF v.t = "bool" THEN (IF v.b THEN "true" ELSE "false")
    ELSE IF v.t = "integer" THEN ToString(v.n)
    ELSE IF v.t = "float" THEN format_finite(v)
    ELSE IF v.t = "string" THEN "\"" \o escape_str(v.str) \o "\""
    ELSE IF v.t = "array"
    THEN IF v.items = <<>> THEN "[]"
         ELSE "[\n" \o pretty_items(v.items, 1, indent + 2) \o spaces(indent) \o "]"
    ELSE IF v.entries = <<>> THEN "{}"
         ELSE "{\n" \o pretty_entries(v.entries, 1, indent + 2) \o spaces(indent) \o "}"

\* serde_json::to_string_pretty
to_string_pretty(v) == pretty(v, 0)

\* REGISTRY (tool_schema.rs:36), filled at start-up: name -> handler
Registry == {"inc", "fail"}

\* tool_fn(arg_json) of a registered name
tool_fn(name, arg_json) ==
    IF name = "inc" /\ arg_json.t = "integer"
    THEN [ok |-> TRUE, val |-> JsonInteger(arg_json.n + 1), err |-> ""]
    ELSE [ok |-> FALSE, val |-> JsonNull, err |-> "Failed to call function"]

\* function names the secondary inference may answer with
ToolNames == Registry \cup {"ghost"}

\* the `function` objects ChatTool::get_function may return for a raw call text
FunctionCalls(text_call) ==
    {[name |-> None, arguments |-> Some(text_call[1])],
     [name |-> Some("ghost"), arguments |-> None],
     [name |-> Some("ghost"), arguments |-> Some("{")],
     [name |-> Some("inc"), arguments |-> Some("{")]}
        \cup {[name |-> Some(n), arguments |-> Some(text_call[1])] : n \in ToolNames}

\* outcomes of ChatTool::get_function(text_call, tools).await
Inferences(text_call) ==
    {[ok |-> FALSE, function_call |-> [name |-> None, arguments |-> None]]}
        \cup {[ok |-> TRUE, function_call |-> fc] : fc \in FunctionCalls(text_call)}

\* ToolCallError Display strings (chat_single.rs:24-49)
ParseFunctionCall == "Failed to parse function call"

MissingField(f) == "Missing field: " \o f

DeserializeArguments(e) == "Failed to deserialize arguments: " \o Error_fmt(e)

ToolOk(str, invoked) == [ok |-> TRUE, str |-> str, invoked |-> invoked]

ToolErr(str) == [ok |-> FALSE, str |-> str, invoked |-> <<>>]

\* a lookup that treats every name as registered
registry_get_any(name) == TRUE

\* registry.get(function_name).is_some()
registry_get(name) == name \in Registry

\* a Some(tool_fn) arm that passes the handler's failure on with `?`
call_tool_fn_propagates(function_name, arg_json) ==
    LET result == tool_fn(function_name, arg_json) IN
    IF result.ok
    THEN ToolOk(to_string_pretty(result.val), <<[name |-> function_name, args |-> arg_json]>>)
    ELSE [ok |-> FALSE, str |-> "Failed to execute function '" \o function_name \o "'",
          invoked |-> <<[name |-> function_name, args |-> arg_json]>>]

\* the Some(tool_fn) arm of process_tool_call: one invocation, its result as the
\* call's Ok value
call_tool_fn(function_name, arg_json) ==
    LET invoked == <<[name |-> function_name, args |-> arg_json]>>
        result == tool_fn(function_name, arg_json)
    IN IF result.ok
       THEN ToolOk(to_string_pretty(result.val), invoked)
       ELSE ToolOk("Calling function '" \o function_name \o "' failed: " \o result.err,
                   invoked)

\* the argument strings of the inferences with what from_str makes of them
ArgumentStrings == TagContents \cup {"{"}

ParsedArguments == [s \in ArgumentStrings |-> from_str(s)]

\* serde_json::from_str(arg_str): read from ParsedArguments where it holds the string
from_str_arguments(arg_str) ==
    IF arg_str \in ArgumentStrings THEN ParsedArguments[arg_str] ELSE from_str(arg_str)

\* process_tool_call after the secondary inference has answered: its Result and the
\* handler invocations it made
process_tool_call(inference) ==
    IF ~inference.ok THEN ToolErr(ParseFunctionCall)
    ELSE LET function_call == inference.function_call IN
         IF ~function_call.name.some THEN ToolErr(MissingField("name"))
         ELSE IF ~function_call.arguments.some THEN ToolErr(MissingField("arguments"))
         ELSE LET function_name == function_call.name.val
                  arg_json == from_str_arguments(function_call.arguments.val)
              IN IF ~arg_json.ok THEN ToolErr(DeserializeArguments(arg_json))
                 ELSE IF registry_get(function_name)
                 THEN call_tool_fn(function_name, arg_json.val)
                 ELSE ToolOk("Cannot find function named '" \o function_name \o "'", <<>>)

\* the ids tokio may have given to the i-th task spawned (1-based): they grow with the
\* order of the spawns, from the start of the counter or past the tasks of others
TaskIds(i) == {i, 30 + i}

\* what a panic in a registered handler carries: a message, or a payload that is no
\* string
PanicPayloads == {Some("handler panicked"), None}

\* `{:?}` of the error_stack Report of ConfigError::ApiInfoNotFound (config.rs:206-211):
\* its Display and then the frames, which the version and the features of error_stack
\* decide; one text of two lines stands for them
ReportDebugs == {"API info not found\nat src/config.rs:211"}

\* the message of Result::unwrap on an Err whose Debug text is `e`
unwrap_failed(e) ==
    "called " \o GraveAccent \o "Result::unwrap()" \o GraveAccent \o " on an "
        \o GraveAccent \o "Err" \o GraveAccent \o " value: " \o e

\* what a panic of ChatTool::get_function carries before the inference has answered:
\* BaseChat::new_with_model_capability unwraps the lookup of the ToolUse API
\* (chat_tool.rs:97, chat_base.rs:161), which fails while none is configured
EarlyPanicPayloads == {Some(unwrap_failed(report)) : report \in ReportDebugs}

\* the JoinErrors task i may end with after a panic with one of the payloads: the id of
\* the task, which this error alone shows, and the payload; no handle is aborted, so
\* none is cancelled
JoinErrors(i, tasks, payloads) ==
    {[kind |-> "Panic", id |-> id, msg |-> msg] :
        id \in {n \in TaskIds(i) :
                   \A j \in 1..Len(tasks) :
                      tasks[j].st = "panicked" =>
                         /\ j < i => tasks[j].join_error.id < n
                         /\ j > i => tasks[j].join_error.id > n},
        msg \in payloads}

NoJoinError == [kind |-> "none", id |-> 0, msg |-> None]

\* `{:?}` of a str: the escapes of char::escape_debug between double quotes, a
\* character that is not printable as \u{..} with its code point in hexadecimal
RECURSIVE escape_debug(_)
escape_debug(s) ==
    IF s = "" THEN ""
    ELSE LET c == SubSeq(s, 1, 1)
             e == IF c = "\"" THEN "\\\""
                  ELSE IF c = "\\" THEN "\\\\"
                  ELSE IF c = "\n" THEN "\\n"
                  ELSE IF c = "\t" THEN "\\t"
                  ELSE IF c = "\r" THEN "\\r"
                  ELSE IF is_control(c) \/ c = CodePoints[127]
                  THEN "\\u{" \o hex(ord(c)) \o "}"
                  ELSE c
         IN  e \o escape_debug(SubSeq(s, 2, Len(s)))

\* escape_debug of the messages the panics of a task carry, computed once
EscapedPayloads ==
    [msg \in {p.val : p \in {q \in PanicPayloads \cup EarlyPanicPayloads : q.some}}
        |-> escape_debug(msg)]

\* `{:?}` of tokio's JoinError: the message of the panic when its payload is a string
join_error_debug(join_error) ==
    IF join_error.kind = "Panic"
    THEN "JoinError::Panic(Id(" \o ToString(join_error.id) \o "), "
             \o (IF join_error.msg.some
                 THEN "\"" \o (IF join_error.msg.val \in DOMAIN EscapedPayloads
                                THEN EscapedPayloads[join_error.msg.val]
                                ELSE escape_debug(join_error.msg.val)) \o "\", "
                 ELSE "")
             \o "...)"
    ELSE "JoinError::Cancelled(Id(" \o ToString(join_error.id) \o "))"

\* the result slot get_tool_answer pushes for task i (0-based) once it has been joined
result_slot(i, task) ==
    IF task.st = "panicked"
    THEN "{\"error\": \"Task execution failed: Task join error for call #"
             \o ToString(i) \o ": " \o join_error_debug(task.join_error) \o "\"}"
    ELSE IF task.outcome.ok THEN task.outcome.str
    ELSE "{\"error\": \"Tool call failed with error: " \o task.outcome.str \o "\"}"

NoOutcome == [ok |-> FALSE, str |-> "", invoked |-> <<>>]

NoInference == [ok |-> FALSE, function_call |-> [name |-> None, arguments |-> None]]

\* task::spawn(process_tool_call(text_call, tools_schema))
spawn(text_call) ==
    [st |-> "spawned", text_call |-> text_call, inference |-> NoInference,
     outcome |-> NoOutcome, join_error |-> NoJoinError]

\* get_tool_answer has been called and the main exchange is under way
InitTool ==
    /\ tool = [pc |-> "main", answer |-> <<>>, text_calls |-> <<>>, clean_answer |-> <<>>,
               tasks |-> <<>>, results |-> <<>>, reordered |-> FALSE,
               ret |-> [ok |-> FALSE, err |-> "none"]]
    /\ messages = new(System, "") /\ msg_op = NoOp
    /\ THREAD_POOL = RestPool /\ shards = NoShards /\ semaphores = <<>> /\ req = RestReq
    /\ clean = RestClean
    /\ ctx = RestCtx /\ chat = RestChat /\ fold = RestFold

\* get_tool_answer: the main exchange fails (chat_single.rs:284-300)
MainExchangeFails ==
    /\ tool.pc = "main"
    /\ tool' = [tool EXCEPT !.pc = "returned",
                            !.ret = [ok |-> FALSE, err |-> "ExtractFunctionCall"]]
    /\ UNCHANGED <<treeVars, gateVars, cleanVars, dialogVars>>

\* get_tool_answer: the main exchange answers; extraction, clean answer, spawning
\* (chat_single.rs:284-341)
MainExchange ==
    /\ tool.pc = "main"
    /\ \E answer \in Answers :
          LET text_calls == extract_tool_uses(answer) IN
          tool' = IF text_calls = <<>>
                  THEN [tool EXCEPT !.pc = "returned", !.answer = answer,
                                    !.clean_answer = answer, !.ret = [ok |-> TRUE, err |-> ""]]
                  ELSE [tool EXCEPT !.pc = "awaiting", !.answer = answer,
                                    !.text_calls = text_calls,
                                    !.clean_answer = clean_answer_fold(answer, text_calls),
                                    !.tasks = [i \in 1..Len(text_calls) |->
                                                  spawn(text_calls[i])]]
    /\ UNCHANGED <<treeVars, gateVars, cleanVars, dialogVars>>

\* whether task i stops running while a task spawned before it is still running
overtakes(i) == \E j \in 1..(i - 1) : tool.tasks[j].st = "spawned"

\* task i runs process_tool_call to its end; `reordered` records that some task has
\* completed before an earlier one
TaskRuns(i) ==
    /\ tool.pc = "awaiting"
    /\ i \in 1..Len(tool.tasks)
    /\ tool.tasks[i].st = "spawned"
    /\ \E inference \in Inferences(tool.tasks[i].text_call) :
          tool' = [tool EXCEPT !.tasks[i] = [@ EXCEPT !.st = "finished",
                                                      !.inference = inference,
                                                      !.outcome = process_tool_call(inference)],
                               !.reordered = @ \/ overtakes(i)]
    /\ UNCHANGED <<treeVars, gateVars, cleanVars, dialogVars>>

\* whether process_tool_call reaches tool_fn(arg_json.clone()) with this inference
calls_handler(inference) ==
    /\ inference.ok
    /\ inference.function_call.name.some
    /\ inference.function_call.arguments.some
    /\ from_str_arguments(inference.function_call.arguments.val).ok
    /\ registry_get(inference.function_call.name.val)

\* task i panics and process_tool_call returns nothing; the JoinHandle will yield the
\* JoinError. The panic comes in ChatTool::get_function before the inference has
\* answered, and no handler is called, or in the handler of a registered function,
\* which has been called with the parsed arguments
TaskPanics(i) ==
    /\ tool.pc = "awaiting"
    /\ i \in 1..Len(tool.tasks)
    /\ tool.tasks[i].st = "spawned"
    /\ \/ \E join_error \in JoinErrors(i, tool.tasks, EarlyPanicPayloads) :
             tool' = [tool EXCEPT
                         !.tasks[i] = [@ EXCEPT !.st = "panicked",
                                                !.join_error = join_error],
                         !.reordered = @ \/ overtakes(i)]
       \/ \E inference \in Inferences(tool.tasks[i].text_call),
             join_error \in JoinErrors(i, tool.tasks, PanicPayloads) :
             /\ calls_handler(inference)
             /\ LET function_call == inference.function_call
                    invoked == <<[name |-> function_call.name.val,
                                  args |-> from_str_arguments(
                                               function_call.arguments.val).val]>>
                IN  tool' = [tool EXCEPT
                                !.tasks[i] = [@ EXCEPT !.st = "panicked",
                                                       !.inference = inference,
                                                       !.outcome.invoked = invoked,
                                                       !.join_error = join_error],
                                !.reordered = @ \/ overtakes(i)]
    /\ UNCHANGED <<treeVars, gateVars, cleanVars, dialogVars>>

\* a loop that takes the handles from the back of the vector (tasks.pop())
joined_from_back(k) == Len(tool.tasks) + 1 - k

\* the task joined in iteration k of `for (i, task) in tasks.into_iter().enumerate()`
joined(k) == k

\* whether the joined task yields a JoinError or an Err of process_tool_call
task_failed(task) == task.st = "panicked" \/ ~task.outcome.ok

\* a loop that leaves get_tool_answer with the first failed call (`task.await??`)
AwaitTaskPropagates ==
    /\ tool.pc = "awaiting"
    /\ LET k == Len(tool.results) + 1 IN
       /\ k <= Len(tool.tasks)
       /\ tool.tasks[joined(k)].st # "spawned"
       /\ LET slot == result_slot(k - 1, tool.tasks[joined(k)]) IN
          tool' = IF task_failed(tool.tasks[joined(k)])
                  THEN [tool EXCEPT !.pc = "returned",
                                    !.ret = [ok |-> FALSE, err |-> "ToolCall"]]
                  ELSE IF k = Len(tool.tasks)
                  THEN [tool EXCEPT !.results = Append(@, slot), !.pc = "returned",
                                    !.ret = [ok |-> TRUE, err |-> ""]]
                  ELSE [tool EXCEPT !.results = Append(@, slot)]
    /\ UNCHANGED <<treeVars, gateVars, cleanVars, dialogVars>>

\* get_tool_answer: task.await of the loop's next task returns and its slot is pushed;
\* after the last one the function returns (chat_single.rs:349-388)
AwaitTask ==
    /\ tool.pc = "awaiting"
    /\ LET k == Len(tool.results) + 1 IN
       /\ k <= Len(tool.tasks)
       /\ tool.tasks[joined(k)].st # "spawned"
       /\ LET slot == result_slot(k - 1, tool.tasks[joined(k)]) IN
          tool' = IF k = Len(tool.tasks)
                  THEN [tool EXCEPT !.results = Append(@, slot), !.pc = "returned",
                                    !.ret = [ok |-> TRUE, err |-> ""]]
                  ELSE [tool EXCEPT !.results = Append(@, slot)]
    /\ UNCHANGED <<treeVars, gateVars, cleanVars, dialogVars>>

NextTool ==
    \/ MainExchangeFails
    \/ MainExchange
    \/ \E i \in 1..MaxTags : TaskRuns(i)
    \/ \E i \in 1..MaxTags : TaskPanics(i)
    \/ AwaitTask

(***************************************************************************)
(* Context assembly (message.rs:220-241, 419-538)                          *)
(***************************************************************************)
\* largest number of nodes of a tree a context is assembled from
MaxCtxNodes == 3

\* roles of the nodes of such a tree, and the speakers a context is assembled for
CtxRoles == {System, User, Assistant, Character("Alice"), Character("Bob")}

CtxContents == {"Hi Bob"}

\* one entry of the wire format: the HashMap with the keys "role" and "content"
ApiMessage(role_str, content) == [role |-> role_str, content |-> content]

\* a mapping that takes every Character node of any name for the speaker's own
to_api_format_by_tag(self, current_speaker) ==
    IF self.role.tag = "System" THEN ApiMessage("system", self.content)
    ELSE IF self.role.tag = "User" THEN ApiMessage("user", self.content)
    ELSE IF self.role.tag = "Assistant" THEN ApiMessage("assistant", self.content)
    ELSE IF self.role.tag = current_speaker.tag THEN ApiMessage("assistant", self.content)
    ELSE ApiMessage("user", self.role.name \o " said: " \o self.content)

to_api_format(self, current_speaker) ==
    IF self.role.tag = "System" THEN ApiMessage("system", self.content)
    ELSE IF self.role.tag = "User" THEN ApiMessage("user", self.content)
    ELSE IF self.role.tag = "Assistant" THEN ApiMessage("assistant", self.content)
    ELSE IF self.role = current_speaker THEN ApiMessage("assistant", self.content)
    ELSE ApiMessage("user", self.role.name \o " said: " \o self.content)

\* path1.iter().zip(path2.iter()).take_while(|(a, b)| a == b).count()
RECURSIVE common_prefix_len(_, _)
common_prefix_len(path1, path2) ==
    IF path1 = <<>> \/ path2 = <<>> \/ Head(path1) # Head(path2) THEN 0
    ELSE 1 + common_prefix_len(Tail(path1), Tail(path2))

find_common_ancestor(path1, path2) == SubSeq(path1, 1, common_prefix_len(path1, path2))

RECURSIVE get_children_from_self(_, _)
get_children_from_self(self, path_to_end) ==
    IF path_to_end = <<>> THEN <<>>
    ELSE IF path_to_end[1] < Len(self.child)
    THEN <<self.child[path_to_end[1] + 1]>>
             \o (IF Len(path_to_end) > 1
                 THEN get_children_from_self(self.child[path_to_end[1] + 1],
                                             Tail(path_to_end))
                 ELSE <<>>)
    ELSE <<>>

\* the loop `for node in ..`: a node is pushed unless its path is in visited_paths
RECURSIVE push_unvisited(_, _)
push_unvisited(nodes, more) ==
    IF more = <<>> THEN nodes
    ELSE push_unvisited(IF \E k \in 1..Len(nodes) : nodes[k].path = Head(more).path
                        THEN nodes ELSE Append(nodes, Head(more)),
                        Tail(more))

\* a collection that walks the end branch before the start branch
assemble_nodes_end_first(self, start_path, end_path) ==
    LET common_ancestor_path == find_common_ancestor(start_path, end_path)
        n == Len(common_ancestor_path)
        ancestor == get_node_by_path(self, common_ancestor_path)
    IN IF ~ancestor.some THEN <<>>
       ELSE LET end_nodes ==
                    IF n < Len(end_path)
                    THEN get_children_from_self(ancestor.val,
                                                SubSeq(end_path, n + 1, Len(end_path)))
                    ELSE <<>>
                start_nodes ==
                    IF n < Len(start_path)
                    THEN get_children_from_self(ancestor.val,
                                                SubSeq(start_path, n + 1, Len(start_path)))
                    ELSE <<ancestor.val>>
            IN push_unvisited(push_unvisited(<<>>, end_nodes), start_nodes)

\* a collection that leaves the ancestor out when the start path ends at it
assemble_nodes_skip_ancestor(self, start_path, end_path) ==
    LET common_ancestor_path == find_common_ancestor(start_path, end_path)
        n == Len(common_ancestor_path)
        ancestor == get_node_by_path(self, common_ancestor_path)
    IN IF ~ancestor.some THEN <<>>
       ELSE LET start_nodes ==
                    IF n < Len(start_path)
                    THEN get_children_from_self(ancestor.val,
                                                SubSeq(start_path, n + 1, Len(start_path)))
                    ELSE <<>>
                end_nodes ==
                    IF n < Len(end_path)
                    THEN get_children_from_self(ancestor.val,
                                                SubSeq(end_path, n + 1, Len(end_path)))
                    ELSE <<>>
            IN push_unvisited(push_unvisited(<<>>, start_nodes), end_nodes)

\* assemble_context up to the conversion: the `nodes` vector (message.rs:487-531)
assemble_nodes(self, start_path, end_path) ==
    LET common_ancestor_path == find_common_ancestor(start_path, end_path)
        n == Len(common_ancestor_path)
        ancestor == get_node_by_path(self, common_ancestor_path)
    IN IF ~ancestor.some THEN <<>>
       ELSE LET start_nodes ==
                    IF n < Len(start_path)
                    THEN get_children_from_self(ancestor.val,
                                                SubSeq(start_path, n + 1, Len(start_path)))
                    ELSE <<ancestor.val>>
                end_nodes ==
                    IF n < Len(end_path)
                    THEN get_children_from_self(ancestor.val,
                                                SubSeq(end_path, n + 1, Len(end_path)))
                    ELSE <<>>
            IN push_unvisited(push_unvisited(<<>>, start_nodes), end_nodes)

\* the value assemble_context returns: a Vec, the signature has no error
OkVec(list) == [ok |-> TRUE, err |-> "", val |-> list]

assemble_context(self, start_path, end_path, current_speaker) ==
    LET nodes == assemble_nodes(self, start_path, end_path) IN
    OkVec([k \in 1..Len(nodes) |-> to_api_format(nodes[k], current_speaker)])

\* path arguments of assemble_context: every position of the tree, the first index
\* past the children of the root and of its first child, and a path through the
\* first index past the children of the root
CtxPaths(node) ==
    LET ps == Positions(node, <<>>) IN
    ps \cup {Append(q, Len(get_node_by_path(node, q).val.child)) : q \in ps \cap {<<>>, <<0>>}}
       \cup {<<Len(node.child), 0>>}

\* Messages::new has built the root of the tree the context is assembled from
InitContext ==
    /\ \E role \in CtxRoles, content \in CtxContents : messages = new(role, content)
    /\ msg_op = NoOp
    /\ ctx = [pc |-> "args", start_path |-> <<>>, end_path |-> <<>>,
              current_speaker |-> NoRole, nodes |-> <<>>, res |-> OkVec(<<>>)]
    /\ THREAD_POOL = RestPool /\ shards = NoShards /\ semaphores = <<>> /\ req = RestReq
    /\ tool = RestTool /\ clean = RestClean
    /\ chat = RestChat /\ fold = RestFold

\* the tree grows by Messages::add at a position that resolves
ContextAdd ==
    /\ ctx.pc = "args"
    /\ NodeCount(messages) < MaxCtxNodes
    /\ \E path \in Positions(messages, <<>>), role \in CtxRoles, content \in CtxContents :
          messages' = add(messages, path, role, content).self
    /\ UNCHANGED <<msg_op, ctx, gateVars, toolVars, cleanVars, chatVars,
                   foldVars>>

\* assemble_context(start_path, end_path, current_speaker) is applied to the root
AssembleContext ==
    /\ ctx.pc = "args"
    /\ \E start_path \in CtxPaths(messages), end_path \in CtxPaths(messages),
          current_speaker \in CtxRoles :
          ctx' = [pc |-> "assembled", start_path |-> start_path, end_path |-> end_path,
                  current_speaker |-> current_speaker,
                  nodes |-> assemble_nodes(messages, start_path, end_path),
                  res |-> assemble_context(messages, start_path, end_path,
                                           current_speaker)]
    /\ UNCHANGED <<treeVars, gateVars, toolVars, cleanVars, chatVars,
                   foldVars>>

NextContext == ContextAdd \/ AssembleContext

(***************************************************************************)
(* Streaming reduction (chat_base.rs:403-465)                              *)
(*                                                                         *)
(* A stream is a sequence of items, each a chunk of bytes or a transport   *)
(* error.  A chunk is the sequence of the lines that split('\n') yields;   *)
(* a line is an optional "data: " prefix followed by a body, and a body is *)
(* the empty string, the text [DONE], a JSON event or text that is not     *)
(* JSON.                                                                   *)
(***************************************************************************)
MaxStreamLines == 3

MaxFoldChunks == 2

Fragments == {"He", "llo"}

\* one element of `choices`: with or without `delta`, with or without a string `content`
Choice(delta) == [delta |-> delta]

Delta(content) == Some([content |-> content])

\* one JSON event: `choices` (None when the key is absent) and `usage` (None when the
\* key is absent or null)
Event(choices, usage) == [choices |-> choices, usage |-> usage]

Events ==
    {Event(Some(<<Choice(Delta(Some("He")))>>), None),
     Event(Some(<<Choice(Delta(Some("llo")))>>), None),
     Event(Some(<<Choice(Delta(Some("He"))), Choice(Delta(Some("llo")))>>), None),
     Event(Some(<<Choice(None), Choice(Delta(None)), Choice(Delta(Some("llo")))>>), Some(7)),
     Event(None, Some(9))}

EmptyBody == [kind |-> "empty"]

DoneBody == [kind |-> "[DONE]"]

MalformedBody == [kind |-> "malformed"]

JsonBody(event) == [kind |-> "json", value |-> event]

Line(prefix, body) == [prefix |-> prefix, body |-> body]

\* the lines a chunk is made of: "", "data: [DONE]", an event with or without the
\* prefix, and two lines that are not JSON: a bare "[DONE]" and a cut event "data: {"
Lines ==
    {Line(FALSE, EmptyBody), Line(TRUE, DoneBody), Line(FALSE, DoneBody),
     Line(TRUE, MalformedBody)}
      \cup {Line(prefix, JsonBody(event)) : prefix \in BOOLEAN, event \in Events}

\* the chunks of at most n lines: split('\n') yields at least one line
ChunksOf(n) == UNION {[1..len -> Lines] : len \in 1..n}

\* line.is_empty()
is_empty(line) == ~line.prefix /\ line.body.kind = "empty"

\* *line != "data: [DONE]"
is_done_sentinel(line) == line.prefix /\ line.body.kind = "[DONE]"

\* line.strip_prefix("data: ").unwrap_or(line): the text after the prefix, or the whole
\* line when it has none
strip_prefix(line) == line.body

\* serde_json::from_str::<Value>(json_str)
from_str_value(json_str) ==
    IF json_str.kind = "json"
    THEN [ok |-> TRUE, val |-> json_str.value]
    ELSE [ok |-> FALSE]

\* a mutation of push_str: the fragment is put in front of the buffer
push_str_front(buffer, content) == content \o buffer

\* String::push_str
push_str(buffer, content) == buffer \o content

\* choices.iter().filter_map(delta).filter_map(content as str).for_each(push_str)
RECURSIVE for_each_choice(_, _)
for_each_choice(buffer, choices) ==
    IF choices = <<>>
    THEN buffer
    ELSE LET choice == Head(choices)
             next == IF choice.delta.some /\ choice.delta.val.content.some
                     THEN push_str(buffer, choice.delta.val.content.val)
                     ELSE buffer
         IN  for_each_choice(next, Tail(choices))

StreamResultDefault == [content |-> "", usage |-> None]

\* a closure that passes over a line that is not JSON instead of failing
fold_line_lenient(result, line) ==
    LET parsed == from_str_value(strip_prefix(line))
    IN  IF ~parsed.ok
        THEN [ok |-> TRUE, val |-> result]
        ELSE LET json == parsed.val
             IN  [ok |-> TRUE,
                  val |-> [content |-> IF json.choices.some
                                       THEN for_each_choice(result.content, json.choices.val)
                                       ELSE result.content,
                           usage |-> IF json.usage.some THEN json.usage ELSE result.usage]]

\* the closure of try_for_each applied to one line that passed the filter
fold_line(result, line) ==
    LET parsed == from_str_value(strip_prefix(line))
    IN  IF ~parsed.ok
        THEN [ok |-> FALSE, err |-> ParseResponseError]
        ELSE LET json == parsed.val
             IN  [ok |-> TRUE,
                  val |-> [content |-> IF json.choices.some
                                       THEN for_each_choice(result.content, json.choices.val)
                                       ELSE result.content,
                           usage |-> IF json.usage.some THEN json.usage ELSE result.usage]]

\* the closure of try_fold applied to one chunk: split, filter, try_for_each
RECURSIVE fold_chunk(_, _)
fold_chunk(result, chunk) ==
    IF chunk = <<>>
    THEN [ok |-> TRUE, val |-> result]
    ELSE LET line == Head(chunk)
         IN  IF is_empty(line) \/ is_done_sentinel(line)
             THEN fold_chunk(result, Tail(chunk))
             ELSE LET r == fold_line(result, line)
                  IN  IF r.ok THEN fold_chunk(r.val, Tail(chunk)) ELSE r

OkContent(content) == [ok |-> TRUE, err |-> "", code |-> 0, val |-> content]

\* the items of a stream: Ok(chunk) or Err(reqwest::Error)
OkItem(chunk) == [ok |-> TRUE, chunk |-> chunk]

ErrItem == [ok |-> FALSE]

\* get_content_from_stream_resp over a whole stream
RECURSIVE try_fold(_, _)
try_fold(result, stream) ==
    IF stream = <<>>
    THEN OkContent(result.content)
    ELSE LET item == Head(stream)
         IN  IF ~item.ok
             THEN HttpError(0)
             ELSE LET r == fold_chunk(result, item.chunk)
                  IN  IF r.ok THEN try_fold(r.val, Tail(stream)) ELSE r.err

get_content_from_stream_resp(stream) == try_fold(StreamResultDefault, stream)

RECURSIVE LineCount(_)
LineCount(stream) ==
    IF stream = <<>>
    THEN 0
    ELSE (IF Head(stream).ok THEN Len(Head(stream).chunk) ELSE 0) + LineCount(Tail(stream))

\* the stream has yielded nothing yet
InitFold ==
    /\ fold = [pc |-> "folding", stream |-> <<>>, result |-> StreamResultDefault,
               res |-> NoResult]
    /\ messages = new(System, "") /\ msg_op = NoOp
    /\ THREAD_POOL = RestPool /\ shards = NoShards /\ semaphores = <<>> /\ req = RestReq
    /\ tool = RestTool
    /\ clean = RestClean
    /\ ctx = RestCtx /\ chat = RestChat

\* the stream yields Ok(chunk) and the closure of try_fold runs on it; an error of the
\* closure ends the fold and the accumulated StreamResult is dropped
TryFoldChunk ==
    /\ fold.pc = "folding"
    /\ Len(fold.stream) < MaxFoldChunks
    /\ LineCount(fold.stream) < MaxStreamLines
    /\ \E chunk \in ChunksOf(MaxStreamLines - LineCount(fold.stream)) :
          LET r == fold_chunk(fold.result, chunk)
          IN  fold' = IF r.ok
                      THEN [fold EXCEPT !.stream = Append(@, OkItem(chunk)),
                                        !.result = r.val]
                      ELSE [fold EXCEPT !.stream = Append(@, OkItem(chunk)),
                                        !.pc = "failed",
                                        !.result = StreamResultDefault,
                                        !.res = r.err]
    /\ UNCHANGED <<treeVars, gateVars, toolVars, cleanVars, ctx, chat>>

\* the stream yields Err(e): map_err turns it into HttpError(0) and try_fold returns it
StreamItemError ==
    /\ fold.pc = "folding"
    /\ Len(fold.stream) < MaxFoldChunks
    /\ fold' = [fold EXCEPT !.stream = Append(@, ErrItem),
                            !.pc = "failed",
                            !.result = StreamResultDefault,
                            !.res = HttpError(0)]
    /\ UNCHANGED <<treeVars, gateVars, toolVars, cleanVars, ctx, chat>>

\* the stream ends: Ok(result.content)
StreamFinished ==
    /\ fold.pc = "folding"
    /\ fold' = [fold EXCEPT !.pc = "done", !.res = OkContent(fold.result.content)]
    /\ UNCHANGED <<treeVars, gateVars, toolVars, cleanVars, ctx, chat>>

NextFold == TryFoldChunk \/ StreamItemError \/ StreamFinished

(***************************************************************************)
(* One chat and its exchanges                                              *)
(* (chat_base.rs:129-191, 252-330, chat_single.rs:109-143,                 *)
(*  chat_multi.rs:174-229)                                                 *)
(***************************************************************************)
MaxChatNodes == 4

MaxExchanges == 3

NoCharacterSelected == [ok |-> FALSE, err |-> "NoCharacterSelected", code |-> 0]

\* the call has panicked ("attempt to add with overflow") and returns nothing
Panicked == [ok |-> FALSE, err |-> "panic", code |-> 0]

\* a JSON integer wraps * 2^32 + low, with low in the range of i32
JsonInt(wraps, low) == [wraps |-> wraps, low |-> low]

\* `n as i32` for an i64 n: the low 32 bits
as_i32(n) == n.low

\* whether a + b leaves the range of i32
overflows(a, b) ==
    \/ b > 0 /\ a > MaxI32 - b
    \/ b < 0 /\ a < MinI32 - b

\* i32::wrapping_add: a + b modulo 2^32, in the range of i32
wrapping_add(a, b) ==
    IF b > 0 /\ a > MaxI32 - b THEN ((a - MaxI32) - 1) + ((b - MaxI32) - 1)
    ELSE IF b < 0 /\ a < MinI32 - b THEN ((a + MaxI32) + 1) + ((b + MaxI32) + 1)
    ELSE a + b

\* total_tokens values far below the range of i32
SmallTokens == {JsonInt(0, 1), JsonInt(0, 2)}

\* what res.json().await yields, as in Bodies, with total_tokens drawn from `tokens`
BodiesWith(tokens) ==
    [json : {FALSE}, has_usage : {FALSE}, total_tokens : {JsonInt(0, 0)}]
        \cup [json : {TRUE}, has_usage : {FALSE}, total_tokens : {JsonInt(0, 0)}]
        \cup [json : {TRUE}, has_usage : {TRUE}, total_tokens : tokens]

\* the text of a user or system turn
ChatContents == {"q"}

\* the values at choices[0].message.content of a unary answer: none, a string, and
\* values that are no strings
ResponseContents == {None, Some(JsonString("Hello")), Some(JsonNull), Some(JsonInteger(3))}

\* the bodies of a unary answer: what res.json() yields, and the value at
\* choices[0].message.content when the body is JSON and has it
Responses ==
    {[body |-> body, content |-> content] :
        body \in BodiesWith(SmallTokens), content \in ResponseContents}

\* the place of the stream in a call that reads none
NoStream == <<>>

\* the place of the unary body in a call that reads none
NoBody ==
    [body |-> [json |-> FALSE, has_usage |-> FALSE, total_tokens |-> JsonInt(0, 0)],
     content |-> None]

\* the byte streams of a streamed answer: one that ends well, one that breaks after a
\* first fragment, one whose second line is not JSON
ChatStreams ==
    LET He == Line(TRUE, JsonBody(Event(Some(<<Choice(Delta(Some("He")))>>), None)))
        llo == Line(TRUE, JsonBody(Event(Some(<<Choice(Delta(Some("llo")))>>), None)))
    IN  {<<OkItem(<<He>>), OkItem(<<llo, Line(TRUE, DoneBody)>>)>>,
         <<OkItem(<<He>>), ErrItem>>,
         <<OkItem(<<He, Line(TRUE, MalformedBody)>>)>>}

NoAdd == [name |-> "none", new_path |-> None]

\* the character_prompts of a MultiChat, and the names given to set_character
character_prompts == [character \in {"Alice"} |-> "You are Alice."]

CharacterNames == {"Alice", "Bob"}

\* ChatError::UndefinedCharacter(character)
UndefinedCharacter(character) ==
    [ok |-> FALSE, err |-> "UndefinedCharacter", code |-> 0, character |-> character]

\* BaseChat::new_with_api_name / new_with_model_capability, under a SingleChat or a
\* MultiChat
NewChat(kind, need_stream, current_character) ==
    [kind |-> kind, need_stream |-> need_stream, current_character |-> current_character,
     character_prompt |-> "", messages |-> None, message_path |-> <<>>, usage |-> 0,
     overflow_checks |-> FALSE, panicked |-> FALSE,
     exchanges |-> 0, op |-> NoAdd, ret |-> NoResult]

\* an add_message that moves the cursor to the node it appended
add_message_moves_cursor(self, role, content) ==
    IF self.messages.some
    THEN LET parent == get_node_by_path(self.messages.val, self.message_path)
         IN  IF parent.some
             THEN [self EXCEPT
                      !.messages = Some(add(self.messages.val, self.message_path,
                                            role, content).self),
                      !.message_path = Append(self.message_path, Len(parent.val.child))]
             ELSE [self EXCEPT !.panicked = TRUE]
    ELSE [self EXCEPT !.messages = Some(new(role, content))]

\* BaseChat::add_message on the fields of the chat `self`
add_message(self, role, content) ==
    IF self.messages.some
    THEN [self EXCEPT !.messages =
              Some(add(self.messages.val, self.message_path, role, content).self)]
    ELSE [self EXCEPT !.messages = Some(new(role, content))]

\* the path of the node that add_message(self, ..) appends
appended_path(self) ==
    IF self.messages.some
    THEN Append(self.message_path,
                Len(get_node_by_path(self.messages.val, self.message_path).val.child))
    ELSE <<>>

\* `self.usage += x`: with overflow checks (debug profile) an overflow panics before
\* the store, without them (release profile) the sum wraps
add_assign(self, x) ==
    IF ~overflows(self.usage, x)
    THEN [ret |-> Ok, self |-> [self EXCEPT !.usage = @ + x]]
    ELSE IF self.overflow_checks
    THEN [ret |-> Panicked, self |-> [self EXCEPT !.panicked = TRUE]]
    ELSE [ret |-> Ok, self |-> [self EXCEPT !.usage = wrapping_add(@, x)]]

\* a get_response that counts a missing usage as zero tokens
get_response_silent_zero(self, send, response) ==
    IF ~send.ok THEN [ret |-> transport_error(send), self |-> self]
    ELSE IF is_error_status(send.status) THEN [ret |-> HttpError(send.status), self |-> self]
    ELSE IF ~response.body.json THEN [ret |-> ParseResponseError, self |-> self]
    ELSE IF ~response.body.has_usage THEN [ret |-> Ok, self |-> self]
    ELSE add_assign(self, as_i32(response.body.total_tokens))

\* BaseChat::get_response: Result and the chat with its usage counter
get_response(self, send, response) ==
    IF ~send.ok THEN [ret |-> transport_error(send), self |-> self]
    ELSE IF is_error_status(send.status) THEN [ret |-> HttpError(send.status), self |-> self]
    ELSE IF ~response.body.json THEN [ret |-> ParseResponseError, self |-> self]
    ELSE IF ~response.body.has_usage THEN [ret |-> MissingUsageData, self |-> self]
    ELSE add_assign(self, as_i32(response.body.total_tokens))

\* BaseChat::get_content_from_resp
get_content_from_resp(response) ==
    IF response.content.some
    THEN OkContent(to_string(response.content.val))
    ELSE ParseResponseError

\* BaseChat::get_stream_response
get_stream_response(send) ==
    IF ~send.ok THEN transport_error(send)
    ELSE IF is_error_status(send.status) THEN HttpError(send.status)
    ELSE Ok

\* the StreamResult the fold holds when the stream has ended or has failed
RECURSIVE fold_result(_, _)
fold_result(result, stream) ==
    IF stream = <<>>
    THEN result
    ELSE LET item == Head(stream)
         IN  IF ~item.ok
             THEN result
             ELSE LET r == fold_chunk(result, item.chunk)
                  IN  IF r.ok THEN fold_result(r.val, Tail(stream)) ELSE result

\* a streamed exchange that charges the usage the fold retained to the counter
content_of_exchange_charging(self, send, response, stream) ==
    IF self.need_stream
    THEN LET opened == get_stream_response(send)
             retained == fold_result(StreamResultDefault, stream).usage
         IN  IF ~opened.ok
             THEN [ret |-> opened, self |-> self]
             ELSE [ret |-> get_content_from_stream_resp(stream),
                   self |-> IF retained.some
                            THEN [self EXCEPT !.usage = @ + retained.val]
                            ELSE self]
    ELSE LET got == get_response(self, send, response)
         IN  IF ~got.ret.ok
             THEN got
             ELSE [ret |-> get_content_from_resp(response), self |-> got.self]

\* `let content = if self.need_stream { .. } else { .. };` with its `?` operators
content_of_exchange(self, send, response, stream) ==
    IF self.need_stream
    THEN LET opened == get_stream_response(send)
         IN  IF ~opened.ok
             THEN [ret |-> opened, self |-> self]
             ELSE [ret |-> get_content_from_stream_resp(stream), self |-> self]
    ELSE LET got == get_response(self, send, response)
         IN  IF ~got.ret.ok
             THEN got
             ELSE [ret |-> get_content_from_resp(response), self |-> got.self]

\* an exchange that appends its answer node before it looks at the outcome
answer_appended_first(self, role, send, response, stream) ==
    LET r == content_of_exchange(self, send, response, stream)
        content == IF r.ret.ok THEN r.ret.val ELSE ""
    IN  [add_message(r.self, role, content) EXCEPT
            !.exchanges = @ + 1,
            !.op = [name |-> "exchange", new_path |-> Some(appended_path(self))],
            !.ret = r.ret]

\* the body of SingleChat::get_content_from_resp and of MultiChat::get_answer after the
\* request body is built: the content, then add_message(role, &content), then Ok(content)
answer_appended(self, role, send, response, stream) ==
    LET r == content_of_exchange(self, send, response, stream)
    IN  IF ~r.ret.ok
        THEN [r.self EXCEPT !.exchanges = @ + 1,
                            !.op = [name |-> "exchange", new_path |-> None],
                            !.ret = r.ret]
        ELSE [add_message(r.self, role, r.ret.val) EXCEPT
                 !.exchanges = @ + 1,
                 !.op = [name |-> "exchange", new_path |-> Some(appended_path(self))],
                 !.ret = r.ret]

\* the slot of `req` that holds the outbound call of the chat, and the base_url of
\* its api_info
chat_call == 1

chat_base_url == "u1"

\* the call has returned: its future is dropped
call_returned == [req EXCEPT ![chat_call] = IdleChat]

\* get_response / get_stream_response is entered: THREAD_POOL.get(&base_url), clone,
\* and the call waits in acquire_owned().await
ExchangeCall(need_stream) ==
    /\ req[chat_call].pc = "Idle"
    /\ req' = [req EXCEPT ![chat_call] =
                  [@ EXCEPT !.pc = "AcquiringPermit",
                            !.kind = IF need_stream THEN "stream" ELSE "unary",
                            !.base_url = chat_base_url,
                            !.sem = THREAD_POOL[chat_base_url]]]
    /\ UNCHANGED <<THREAD_POOL, shards, semaphores, treeVars, toolVars, cleanVars,
                   dialogVars>>

\* acquire_owned().await has completed: the call holds a permit and waits in
\* send_request(..).await
PermitAcquired(kind) ==
    /\ req[chat_call].kind = kind
    /\ AcquirePermit(chat_call)

\* send_request(..).await of get_response has completed with `send`:
\* drop(semaphore_permit), then the Result and the status; the call returns an error,
\* leaving the chat as `returned`, or waits in res.json().await
UnarySent(send, returned) ==
    /\ req[chat_call].pc = "Sending" /\ req[chat_call].kind = "unary"
    /\ semaphores' = add_permits(semaphores, req[chat_call].sem)
    /\ IF send.ok /\ ~is_error_status(send.status)
       THEN /\ req' = [req EXCEPT ![chat_call] =
                          [@ EXCEPT !.pc = "ParsingBody", !.permit = FALSE,
                                    !.released_at = "send", !.response = send]]
            /\ UNCHANGED chat
       ELSE /\ req' = call_returned
            /\ chat' = returned
    /\ UNCHANGED <<THREAD_POOL, shards, treeVars, toolVars, cleanVars, ctx,
                   fold>>

\* res.json().await has completed: the usage is read and charged, and the caller goes
\* on to the content and to add_message without another await; the chat is left as
\* `returned`
BodyParsed(returned) ==
    /\ req[chat_call].pc = "ParsingBody" /\ req[chat_call].kind = "unary"
    /\ req' = call_returned
    /\ chat' = returned
    /\ UNCHANGED <<THREAD_POOL, shards, semaphores, treeVars, toolVars, cleanVars, ctx, fold>>

\* send_request(..).await of get_stream_response has completed with `send`: an error
\* returns and drops the permit, leaving the chat as `returned`; a good status hands
\* stream and permit to get_content_from_stream_resp, which waits for the first item
StreamOpened(send, returned) ==
    /\ req[chat_call].pc = "Sending" /\ req[chat_call].kind = "stream"
    /\ IF send.ok /\ ~is_error_status(send.status)
       THEN /\ req' = [req EXCEPT ![chat_call] =
                          [@ EXCEPT !.pc = "Draining", !.response = send]]
            /\ fold' = [pc |-> "folding", stream |-> <<>>,
                        result |-> StreamResultDefault, res |-> NoResult]
            /\ UNCHANGED <<semaphores, chat>>
       ELSE /\ semaphores' = add_permits(semaphores, req[chat_call].sem)
            /\ req' = call_returned
            /\ chat' = returned
            /\ UNCHANGED fold
    /\ UNCHANGED <<THREAD_POOL, shards, treeVars, toolVars, cleanVars, ctx>>

\* the items try_fold has polled once the next item of `stream` has arrived
polled(stream) == SubSeq(stream, 1, Len(fold.stream) + 1)

\* the stream, which goes on to be `stream`, has yielded its next item to try_fold:
\* Ok(chunk) is folded and the fold waits for the next item; Err(e) or an error of the
\* closure ends the fold, the permit is dropped and the call returns, leaving the chat
\* as `returned`
StreamItem(stream, returned) ==
    /\ req[chat_call].pc = "Draining" /\ req[chat_call].kind = "stream"
    /\ Len(fold.stream) < Len(stream)
    /\ SubSeq(stream, 1, Len(fold.stream)) = fold.stream
    /\ LET item == stream[Len(fold.stream) + 1]
           r == IF item.ok
                THEN fold_chunk(fold.result, item.chunk)
                ELSE [ok |-> FALSE, err |-> HttpError(0)]
       IN  IF r.ok
           THEN /\ fold' = [fold EXCEPT !.stream = Append(@, item), !.result = r.val]
                /\ req' = [req EXCEPT ![chat_call].chunks = @ + 1]
                /\ UNCHANGED <<semaphores, chat>>
           ELSE /\ semaphores' = add_permits(semaphores, req[chat_call].sem)
                /\ req' = call_returned
                /\ fold' = RestFold
                /\ chat' = returned
    /\ UNCHANGED <<THREAD_POOL, shards, treeVars, toolVars, cleanVars, ctx>>

\* the stream, one of `streams`, has ended: try_fold returns the StreamResult, the
\* permit is dropped, and the caller goes on to add_message without another await; the
\* chat is left as `returned`
StreamDrained(streams, returned) ==
    /\ req[chat_call].pc = "Draining" /\ req[chat_call].kind = "stream"
    /\ fold.stream \in streams
    /\ semaphores' = add_permits(semaphores, req[chat_call].sem)
    /\ req' = call_returned
    /\ fold' = RestFold
    /\ chat' = returned
    /\ UNCHANGED <<THREAD_POOL, shards, treeVars, toolVars, cleanVars, ctx>>

ChatNodeCount(self) == IF self.messages.some THEN NodeCount(self.messages.val) ELSE 0

\* a SingleChat or a MultiChat has been constructed
InitChat ==
    /\ \E kind \in {"single", "multi"}, need_stream \in BOOLEAN,
          overflow_checks \in BOOLEAN :
          chat = [NewChat(kind, need_stream, "") EXCEPT
                     !.overflow_checks = overflow_checks]
    /\ messages = new(System, "") /\ msg_op = NoOp
    /\ THREAD_POOL = ReadyPool /\ shards = NoShards /\ semaphores = ReadySemaphores
    /\ req = RestReq
    /\ tool = RestTool
    /\ clean = RestClean
    /\ ctx = RestCtx /\ fold = RestFold

\* MultiChat::add_user_message / add_system_message, and the add_message calls of
\* set_tools and get_json_answer: a turn is added outside an exchange
AddMessage ==
    /\ ~chat.panicked
    /\ req[chat_call].pc = "Idle"
    /\ ChatNodeCount(chat) < MaxChatNodes
    /\ \E role \in {User, System}, content \in ChatContents :
          chat' = [add_message(chat, role, content) EXCEPT
                      !.op = [name |-> "add_message",
                              new_path |-> Some(appended_path(chat))],
                      !.ret = NoResult]
    /\ UNCHANGED <<treeVars, gateVars, toolVars, cleanVars, ctx, fold>>

\* MultiChat::set_character
SetCharacter ==
    /\ ~chat.panicked
    /\ chat.kind = "multi"
    /\ req[chat_call].pc = "Idle"
    /\ \E character \in CharacterNames :
          chat' = IF character \notin DOMAIN character_prompts
                  THEN [chat EXCEPT !.op = [name |-> "set_character", new_path |-> None],
                                    !.ret = UndefinedCharacter(character)]
                  ELSE [chat EXCEPT !.current_character = character,
                                    !.character_prompt = character_prompts[character],
                                    !.op = [name |-> "set_character", new_path |-> None],
                                    !.ret = Ok]
    /\ UNCHANGED <<treeVars, gateVars, toolVars, cleanVars, ctx, fold>>

\* the chat once the exchange underway has returned: the answer role is
\* Role::Assistant for a SingleChat and Role::Character(current_character) for a
\* MultiChat
exchange_returned(send, response, stream) ==
    answer_appended(chat,
                    IF chat.kind = "single"
                    THEN Assistant
                    ELSE Character(chat.current_character),
                    send, response, stream)

\* SingleChat::get_content_from_resp: the call is entered, goes on from await to await,
\* and writes the chat when the last await has completed
GetContentFromResp ==
    /\ chat.kind = "single"
    /\ \/ /\ ~chat.panicked
          /\ chat.exchanges < MaxExchanges
          /\ ChatNodeCount(chat) < MaxChatNodes
          /\ ExchangeCall(chat.need_stream)
       \/ PermitAcquired("unary")
       \/ \E send \in SendResults :
             UnarySent(send, exchange_returned(send, NoBody, NoStream))
       \/ \E response \in Responses :
             BodyParsed(exchange_returned(req[chat_call].response, response, NoStream))
       \/ PermitAcquired("stream")
       \/ \E send \in SendResults :
             StreamOpened(send, exchange_returned(send, NoBody, NoStream))
       \/ \E stream \in ChatStreams :
             StreamItem(stream, exchange_returned(req[chat_call].response, NoBody, polled(stream)))
       \/ StreamDrained(ChatStreams,
             exchange_returned(req[chat_call].response, NoBody, fold.stream))

\* MultiChat::get_answer: without a character it returns at once; otherwise the call is
\* entered, goes on from await to await, and writes the chat when the last await has
\* completed
GetAnswer ==
    /\ chat.kind = "multi"
    /\ \/ /\ ~chat.panicked
          /\ chat.exchanges < MaxExchanges
          /\ ChatNodeCount(chat) < MaxChatNodes
          /\ IF chat.current_character = ""
             THEN /\ req[chat_call].pc = "Idle"
                  /\ chat' = [chat EXCEPT !.exchanges = @ + 1,
                                          !.op = [name |-> "exchange", new_path |-> None],
                                          !.ret = NoCharacterSelected]
                  /\ UNCHANGED <<treeVars, gateVars, toolVars, cleanVars, ctx, fold>>
             ELSE ExchangeCall(chat.need_stream)
       \/ PermitAcquired("unary")
       \/ \E send \in SendResults :
             UnarySent(send, exchange_returned(send, NoBody, NoStream))
       \/ \E response \in Responses :
             BodyParsed(exchange_returned(req[chat_call].response, response, NoStream))
       \/ PermitAcquired("stream")
       \/ \E send \in SendResults :
             StreamOpened(send, exchange_returned(send, NoBody, NoStream))
       \/ \E stream \in ChatStreams :
             StreamItem(stream, exchange_returned(req[chat_call].response, NoBody, polled(stream)))
       \/ StreamDrained(ChatStreams,
             exchange_returned(req[chat_call].response, NoBody, fold.stream))

NextChat == AddMessage \/ SetCharacter \/ GetContentFromResp \/ GetAnswer

(***************************************************************************)
(* The cursor of a chat over its tree (chat_base.rs:105-108, 183-191,      *)
(* message.rs:339-383)                                                     *)
(*                                                                         *)
(* BaseChat keeps the tree in the public field `messages` and the cursor   *)
(* in `message_path`. add_message writes the tree under the cursor; a      *)
(* caller edits the tree with Messages::update_content and                 *)
(* Messages::delete on `messages`. `msg_op` records the last operation.    *)
(***************************************************************************)
MaxCursorNodes == 3

\* a BaseChat has been constructed
InitCursor ==
    /\ \E kind \in {"single", "multi"}, need_stream \in BOOLEAN :
          chat = NewChat(kind, need_stream, "")
    /\ messages = new(System, "") /\ msg_op = NoOp
    /\ THREAD_POOL = RestPool /\ shards = NoShards /\ semaphores = <<>> /\ req = RestReq
    /\ tool = RestTool
    /\ clean = RestClean
    /\ ctx = RestCtx /\ fold = RestFold

\* BaseChat::add_message
CursorAdd ==
    /\ ~chat.panicked
    /\ ChatNodeCount(chat) < MaxCursorNodes
    /\ \E role \in TreeRoles, content \in TreeContents :
          /\ chat' = [add_message(chat, role, content) EXCEPT
                         !.op = [name |-> "add_message",
                                 new_path |-> Some(appended_path(chat))],
                         !.ret = NoResult]
          /\ msg_op' = [op |-> "add", path |-> chat.message_path, role |-> role,
                        content |-> content, res |-> OkUnit]
    /\ UNCHANGED <<messages, gateVars, toolVars, cleanVars, ctx, fold>>

\* Messages::update_content on the tree of the chat
CursorUpdateContent ==
    /\ ~chat.panicked
    /\ chat.messages.some
    /\ \E path \in ArgPaths(chat.messages.val) \cup {chat.message_path},
          content \in TreeContents :
          LET r == update_content(chat.messages.val, path, content) IN
          /\ chat' = [chat EXCEPT !.messages = Some(r.self),
                                  !.op = [name |-> "update_content", new_path |-> None],
                                  !.ret = NoResult]
          /\ msg_op' = [op |-> "update_content", path |-> path, role |-> NoRole,
                        content |-> IF r.res.ok THEN content ELSE "", res |-> r.res]
    /\ UNCHANGED <<messages, gateVars, toolVars, cleanVars, ctx, fold>>

\* Messages::delete on the tree of the chat
CursorDelete ==
    /\ ~chat.panicked
    /\ chat.messages.some
    /\ \E path \in ArgPaths(chat.messages.val) \cup {chat.message_path} :
          LET r == delete(chat.messages.val, path) IN
          /\ chat' = [chat EXCEPT !.messages = Some(r.self),
                                  !.op = [name |-> "delete", new_path |-> None],
                                  !.ret = NoResult]
          /\ msg_op' = [op |-> "delete", path |-> path, role |-> NoRole, content |-> "",
                        res |-> r.res]
    /\ UNCHANGED <<messages, gateVars, toolVars, cleanVars, ctx, fold>>

NextCursor == CursorAdd \/ CursorUpdateContent \/ CursorDelete

(***************************************************************************)
(* The usage counter over unary calls (chat_base.rs:252-311)               *)
(*                                                                         *)
(* `chat.base` is the BaseChat; `chat.charged` lists the total_tokens of   *)
(* the calls that returned Ok, and `chat.op` is the last call with the     *)
(* counter it found.                                                       *)
(***************************************************************************)
MaxCalls == 3

\* total_tokens values: small ones, 2^32 + 1 and i32::MAX
UsageTokens == SmallTokens \cup {JsonInt(1, 1), JsonInt(0, MaxI32)}

UsageResponses == {[body |-> body, content |-> None] : body \in BodiesWith(UsageTokens)}

NoCall ==
    [name |-> "none", send |-> [ok |-> FALSE, status |-> 0, timeout |-> FALSE],
     response |-> [body |-> [json |-> FALSE, has_usage |-> FALSE,
                             total_tokens |-> JsonInt(0, 0)],
                   content |-> None],
     usage_before |-> 0]

\* a BaseChat has been constructed; the build profile decides on overflow checks
InitUsage ==
    /\ \E overflow_checks \in BOOLEAN :
          chat = [base |-> [NewChat("single", FALSE, "") EXCEPT
                               !.overflow_checks = overflow_checks],
                  charged |-> <<>>,
                  op |-> NoCall]
    /\ messages = new(System, "") /\ msg_op = NoOp
    /\ THREAD_POOL = ReadyPool /\ shards = NoShards /\ semaphores = ReadySemaphores
    /\ req = RestReq
    /\ tool = RestTool
    /\ clean = RestClean
    /\ ctx = RestCtx /\ fold = RestFold

\* the chat once a get_response that met `send` and `response` has returned
get_response_returned(send, response) ==
    LET r == get_response(chat.base, send, response)
    IN  [base |-> [r.self EXCEPT !.exchanges = @ + 1, !.ret = r.ret],
         charged |-> IF r.ret.ok
                     THEN Append(chat.charged, response.body.total_tokens)
                     ELSE chat.charged,
         op |-> [name |-> "get_response", send |-> send, response |-> response,
                 usage_before |-> chat.base.usage]]

\* one call of BaseChat::get_response: it is entered, goes on from await to await, and
\* charges the counter when res.json().await has completed
GetResponse ==
    \/ /\ ~chat.base.panicked
       /\ chat.base.exchanges < MaxCalls
       /\ ExchangeCall(FALSE)
    \/ PermitAcquired("unary")
    \/ \E send \in SendResults :
          UnarySent(send, get_response_returned(send, NoBody))
    \/ \E response \in UsageResponses :
          BodyParsed(get_response_returned(req[chat_call].response, response))

NextUsage == GetResponse

(***************************************************************************)
(* Unary exchanges of a SingleChat (chat_single.rs:125-143,                *)
(* chat_base.rs:322-334)                                                   *)
(*                                                                         *)
(* `chat.base` is the BaseChat and `chat.op` the last exchange with the    *)
(* send result and the response it met.                                    *)
(***************************************************************************)
MaxUnary == 2

NoExchange ==
    [name |-> "none", send |-> [ok |-> FALSE, status |-> 0, timeout |-> FALSE],
     response |-> [body |-> [json |-> FALSE, has_usage |-> FALSE,
                             total_tokens |-> JsonInt(0, 0)],
                   content |-> None]]

\* a SingleChat without streaming has been constructed
InitUnary ==
    /\ chat = [base |-> NewChat("single", FALSE, ""), op |-> NoExchange]
    /\ messages = new(System, "") /\ msg_op = NoOp
    /\ THREAD_POOL = ReadyPool /\ shards = NoShards /\ semaphores = ReadySemaphores
    /\ req = RestReq
    /\ tool = RestTool
    /\ clean = RestClean
    /\ ctx = RestCtx /\ fold = RestFold

\* the chat once the unary exchange that met `send` and `response` has returned
unary_returned(send, response) ==
    [base |-> answer_appended(chat.base, Assistant, send, response, <<>>),
     op |-> [name |-> "exchange", send |-> send, response |-> response]]

\* SingleChat::get_content_from_resp with need_stream = false: get_response,
\* BaseChat::get_content_from_resp, add_message(Role::Assistant, &content)
UnaryExchange ==
    \/ /\ chat.base.exchanges < MaxUnary
       /\ ExchangeCall(chat.base.need_stream)
    \/ PermitAcquired("unary")
    \/ \E send \in SendResults :
          UnarySent(send, unary_returned(send, NoBody))
    \/ \E response \in Responses :
          BodyParsed(unary_returned(req[chat_call].response, response))

NextUnary == UnaryExchange

(***************************************************************************)
(* Streamed exchanges and the usage counter (chat_single.rs:113-143,       *)
(* chat_base.rs:252-311, 346-465)                                          *)
(*                                                                         *)
(* `chat.base` is the BaseChat of a streaming SingleChat; `chat.op` is the *)
(* last call with the send result, the body or the byte stream it met and  *)
(* the counter it found.  The counter moves only by a get_response called  *)
(* on the public `base` of the chat.                                       *)
(***************************************************************************)
MaxStreamed == 3

\* byte streams whose events carry a `usage`: one that ends well, one that breaks after
\* the usage, one whose last line is not JSON; and the streams without a usage
UsageStreams ==
    LET He == Line(TRUE, JsonBody(Event(Some(<<Choice(Delta(Some("He")))>>), Some(7))))
        llo == Line(TRUE, JsonBody(Event(Some(<<Choice(Delta(Some("llo")))>>), None)))
        tail == Line(TRUE, JsonBody(Event(None, Some(9))))
    IN  {<<OkItem(<<He>>), OkItem(<<llo, tail, Line(TRUE, DoneBody)>>)>>,
         <<OkItem(<<He, tail>>), ErrItem>>,
         <<OkItem(<<tail, Line(TRUE, MalformedBody)>>)>>}
           \cup ChatStreams

NoStreamed ==
    [name |-> "none", send |-> NoResponse, response |-> NoBody, stream |-> NoStream,
     usage_before |-> 0]

\* a SingleChat has been constructed with need_stream = true
InitStreamed ==
    /\ chat = [base |-> NewChat("single", TRUE, ""), op |-> NoStreamed]
    /\ messages = new(System, "") /\ msg_op = NoOp
    /\ THREAD_POOL = ReadyPool /\ shards = NoShards /\ semaphores = ReadySemaphores
    /\ req = RestReq
    /\ tool = RestTool
    /\ clean = RestClean
    /\ ctx = RestCtx /\ fold = RestFold

\* the chat once the streamed exchange that met `send` and `stream` has returned
streamed_returned(send, stream) ==
    [base |-> answer_appended(chat.base, Assistant, send, NoBody, stream),
     op |-> [name |-> "stream", send |-> send, response |-> NoBody, stream |-> stream,
             usage_before |-> chat.base.usage]]

\* the chat once a get_response on its base that met `send` and `response` has returned
base_response_returned(send, response) ==
    LET r == get_response(chat.base, send, response)
    IN  [base |-> [r.self EXCEPT !.exchanges = @ + 1, !.ret = r.ret],
         op |-> [name |-> "get_response", send |-> send, response |-> response,
                 stream |-> NoStream, usage_before |-> chat.base.usage]]

\* SingleChat::get_content_from_resp on the streaming chat
StreamedExchange ==
    \/ /\ chat.base.exchanges < MaxStreamed
       /\ ExchangeCall(chat.base.need_stream)
    \/ PermitAcquired("stream")
    \/ \E send \in SendResults :
          StreamOpened(send, streamed_returned(send, NoStream))
    \/ \E stream \in UsageStreams :
          StreamItem(stream, streamed_returned(req[chat_call].response, polled(stream)))
    \/ StreamDrained(UsageStreams,
          streamed_returned(req[chat_call].response, fold.stream))

\* BaseChat::get_response called on the `base` of the chat
GetResponseOnBase ==
    \/ /\ chat.base.exchanges < MaxStreamed
       /\ ExchangeCall(FALSE)
    \/ PermitAcquired("unary")
    \/ \E send \in SendResults :
          UnarySent(send, base_response_returned(send, NoBody))
    \/ \E response \in Responses :
          BodyParsed(base_response_returned(req[chat_call].response, response))

NextStreamed == StreamedExchange \/ GetResponseOnBase

(***************************************************************************)
(* The requests of one get_tool_answer (chat_single.rs:278-341,            *)
(* chat_tool.rs:91-123)                                                    *)
(*                                                                         *)
(* Call 1 is the main exchange of the SingleChat; every other call is the  *)
(* get_response of ChatTool::get_function inside one spawned               *)
(* process_tool_call task, one task for each tag of the main answer.       *)
(***************************************************************************)
\* largest number of tool-call tags in the answer of the main exchange
MaxTasks == 2

main_exchange == 1

DispatchCalls == 1..(1 + MaxTasks)

tool_tasks == DispatchCalls \ {main_exchange}

\* the main exchange has returned its answer: get_tool_answer goes on to spawn the tasks
main_answered == req[main_exchange].pc = "Done" /\ req[main_exchange].result.ok

\* the tasks whose secondary request has been started
started_tasks == {r \in tool_tasks : req[r].pc # "Idle"}

\* the SingleChat and the BaseChat of every task that will be spawned have issued no
\* request; the gates are those of InitGate
InitDispatch ==
    /\ THREAD_POOL = [base_url \in Endpoints |-> IF base_url = "u1" THEN 1 ELSE 2]
    /\ shards = NoShards
    /\ \E par \in [1..Cardinality(Endpoints) -> 1..MaxPar] :
          semaphores = [s \in 1..Cardinality(Endpoints) |-> NewSemaphore(par[s])]
    /\ req = [r \in DispatchCalls |-> IdleChat]
    /\ messages = new(System, "") /\ msg_op = NoOp
    /\ tool = RestTool
    /\ clean = RestClean
    /\ ctx = RestCtx /\ chat = RestChat /\ fold = RestFold

\* self.get_content_from_resp(..) of get_tool_answer: the main exchange starts, unary or
\* streaming as need_stream says
MainCall ==
    /\ Call(main_exchange)

\* base.get_response(request_body) of get_function in the task r, which was spawned
\* after the main exchange had returned Ok; every task builds its BaseChat with
\* new_with_model_capability(&ModelCapability::ToolUse, ..), so all of them call the
\* endpoint the configuration holds for that capability
TaskCall(r) ==
    /\ r \in tool_tasks
    /\ main_answered
    /\ Call(r)
    /\ req'[r].kind = "unary"
    /\ \A q \in started_tasks : req'[r].base_url = req[q].base_url

NextDispatch ==
    \/ MainCall
    \/ \E r \in tool_tasks : TaskCall(r)
    \/ \E r \in DispatchCalls : AcquirePermit(r)
    \/ \E r \in DispatchCalls : SendRequest(r)
    \/ \E r \in DispatchCalls : UnaryDrop(r)
    \/ \E r \in DispatchCalls : UnaryStatus(r)
    \/ \E r \in DispatchCalls : UnaryParse(r)
    \/ \E r \in DispatchCalls : StreamStatus(r)
    \/ \E r \in DispatchCalls : StreamPassOn(r)
    \/ \E r \in DispatchCalls : StreamChunk(r)
    \/ \E r \in DispatchCalls : StreamEnd(r)

(***************************************************************************)
(* The history of a BaseChat (chat_base.rs:183-218)                        *)
(*                                                                         *)
(* `chat.base` is the BaseChat, `chat.added` the messages given to         *)
(* add_message in the order of the calls, `chat.last` the path of the node *)
(* the last call appended.                                                 *)
(***************************************************************************)
MaxHistory == 3

HistoryRoles == {System, User, Assistant}

HistoryContents == {"one", "two"}

\* BaseChat::build_request_body: the "messages" entry of the body
build_request_body(self, end_path, current_speaker) ==
    IF ~self.messages.some THEN <<>>
    ELSE assemble_context(self.messages.val, <<>>, end_path, current_speaker).val

\* BaseChat::new_with_api_name: no message yet
InitHistory ==
    /\ chat = [base |-> NewChat("single", FALSE, ""), added |-> <<>>, last |-> <<>>]
    /\ messages = new(System, "") /\ msg_op = NoOp
    /\ THREAD_POOL = RestPool /\ shards = NoShards /\ semaphores = <<>> /\ req = RestReq
    /\ tool = RestTool
    /\ clean = RestClean
    /\ ctx = RestCtx /\ fold = RestFold

\* one call of BaseChat::add_message
HistoryAdd ==
    /\ Len(chat.added) < MaxHistory
    /\ \E role \in HistoryRoles, content \in HistoryContents :
          chat' = [base |-> add_message(chat.base, role, content),
                   added |-> Append(chat.added, [role |-> role, content |-> content]),
                   last |-> appended_path(chat.base)]
    /\ UNCHANGED <<treeVars, gateVars, toolVars, cleanVars, ctx, fold>>

NextHistory == HistoryAdd

(***************************************************************************)
(* Registration of API sources while requests run (config.rs:111-125,      *)
(* chat_base.rs:258-264, 358-364)                                          *)
(***************************************************************************)

\* add_api_source calls made after the first registration of every endpoint
MaxReconfig == 1

\* the shards the keys of THREAD_POOL may lie in: DashMap hashes a key with the
\* RandomState of the run, so two base_urls share a shard in one run and not in another
ShardMaps == {[base_url \in Endpoints |-> 1],
              [base_url \in Endpoints |-> IF base_url = "u1" THEN 1 ELSE 2]}

\* Config::add_api_source has run once for every endpoint, as in InitGate, and the run
\* has put the keys into their shards
InitConfig ==
    /\ THREAD_POOL = [base_url \in Endpoints |-> first_gate(base_url)]
    /\ shards \in ShardMaps
    /\ \E par \in [1..Cardinality(Endpoints) -> 1..MaxPar] :
          semaphores = [s \in 1..Cardinality(Endpoints) |-> NewSemaphore(par[s])]
    /\ req = [r \in Requests |-> IdleChat]
    /\ messages = new(System, "") /\ msg_op = NoOp
    /\ tool = RestTool
    /\ clean = RestClean
    /\ ctx = RestCtx /\ chat = RestChat /\ fold = RestFold

\* `let semaphore_permit = THREAD_POOL.get(&self.base_url).unwrap().clone()
\*      .acquire_owned().await.unwrap();` (chat_base.rs:258-264, 358-364)
\* DashMap::get returns a Ref that holds the read lock of the shard of the key; the Ref
\* is a temporary of the let statement and is dropped at its end, after the await:
\* the call r holds the Ref for as long as it waits for the permit
holds_entry_guard(r) == req[r].pc = "AcquiringPermit"

\* DashMap::insert takes the write lock of the shard of the key, which no Ref of that
\* shard may be alive for
insert_can_lock(base_url) ==
    \A r \in Requests :
       holds_entry_guard(r) => shards[req[r].base_url] # shards[base_url]

\* Config::add_api_source(name, base_url, parallelism):
\* THREAD_POOL.insert(base_url, Arc::new(Semaphore::new(parallelism))), once the insert
\* has the write lock of the shard; the map entry is replaced, the Arc clones held by
\* running requests keep the former semaphore alive
AddApiSource(base_url, parallelism) ==
    /\ insert_can_lock(base_url)
    /\ Len(semaphores) < Cardinality(Endpoints) + MaxReconfig
    /\ semaphores' = Append(semaphores, NewSemaphore(parallelism))
    /\ THREAD_POOL' = [THREAD_POOL EXCEPT ![base_url] = Len(semaphores) + 1]
    /\ UNCHANGED <<shards, req, treeVars, toolVars, cleanVars, dialogVars>>

NextConfig ==
    \/ \E base_url \in Endpoints, parallelism \in 1..MaxPar :
          AddApiSource(base_url, parallelism)
    \/ \E r \in Requests : Call(r)
    \/ \E r \in Requests : AcquirePermit(r)
    \/ \E r \in Requests : SendRequest(r)
    \/ \E r \in Requests : UnaryDrop(r)
    \/ \E r \in Requests : UnaryStatus(r)
    \/ \E r \in Requests : UnaryParse(r)
    \/ \E r \in Requests : StreamStatus(r)
    \/ \E r \in Requests : StreamPassOn(r)
    \/ \E r \in Requests : StreamChunk(r)
    \/ \E r \in Requests : StreamEnd(r)

(***************************************************************************)
(* Role and its strings (message.rs:49-81)                                 *)
(*                                                                         *)
(* `msg_op.roles` is a list of Role values, `msg_op.strings` the strings   *)
(* to_string has made of its first elements, and `msg_op.back` the Role    *)
(* values Role::from has made of the first of these strings.               *)
(***************************************************************************)
MaxRoles == 2

\* the names of Character roles
RoleNames == {"system", "user", "assistant", "Alice"}

Roles == {System, User, Assistant} \cup {Character(name) : name \in RoleNames}

\* impl ToString for Role
Role_to_string(self) ==
    IF self = System THEN "system"
    ELSE IF self = User THEN "user"
    ELSE IF self = Assistant THEN "assistant"
    ELSE self.name

\* impl From<&str> for Role
Role_from(s) ==
    IF s = "system" THEN System
    ELSE IF s = "user" THEN User
    ELSE IF s = "assistant" THEN Assistant
    ELSE Character(s)

\* some Role values have been constructed
InitRole ==
    /\ \E len \in 1..MaxRoles : \E roles \in [1..len -> Roles] :
          msg_op = [op |-> "roles", roles |-> roles, strings |-> <<>>, back |-> <<>>]
    /\ messages = new(System, "")
    /\ THREAD_POOL = RestPool /\ shards = NoShards /\ semaphores = <<>> /\ req = RestReq
    /\ tool = RestTool
    /\ clean = RestClean
    /\ ctx = RestCtx /\ chat = RestChat /\ fold = RestFold

\* role.to_string() on the next Role
RoleToString ==
    /\ Len(msg_op.strings) < Len(msg_op.roles)
    /\ msg_op' = [msg_op EXCEPT !.strings =
                     Append(@, Role_to_string(msg_op.roles[Len(msg_op.strings) + 1]))]
    /\ UNCHANGED <<messages, gateVars, toolVars, cleanVars, dialogVars>>

\* Role::from(s) on the next string
RoleFrom ==
    /\ Len(msg_op.back) < Len(msg_op.strings)
    /\ msg_op' = [msg_op EXCEPT !.back =
                     Append(@, Role_from(msg_op.strings[Len(msg_op.back) + 1]))]
    /\ UNCHANGED <<messages, gateVars, toolVars, cleanVars, dialogVars>>

NextRole == RoleToString \/ RoleFrom

(***************************************************************************)
(* Progress of the requests through the gate (config.rs:111-125,           *)
(* chat_base.rs:252-272, 346-391)                                          *)
(***************************************************************************)
\* Config::add_api_source has run once for every endpoint with a parallelism of type
\* usize, zero included: Semaphore::new(0) is a gate without a permit
InitProgress ==
    /\ THREAD_POOL = [base_url \in Endpoints |-> first_gate(base_url)]
    /\ shards = NoShards
    /\ \E par \in [1..Cardinality(Endpoints) -> 0..MaxPar] :
          semaphores = [s \in 1..Cardinality(Endpoints) |-> NewSemaphore(par[s])]
    /\ req = [r \in Requests |-> IdleChat]
    /\ messages = new(System, "") /\ msg_op = NoOp
    /\ tool = RestTool
    /\ clean = RestClean
    /\ ctx = RestCtx /\ chat = RestChat /\ fold = RestFold

\* the runtime polls every task that can go on; the tokio semaphore serves its waiters
\* in the order they came, so a waiter is not passed over for ever; a send that is
\* under way returns, and a stream that is drained ends or fails
FairProgress ==
    \A r \in Requests :
       /\ SF_vars(AcquirePermit(r))
       /\ WF_vars(SendRequest(r))
       /\ WF_vars(UnaryDrop(r))
       /\ WF_vars(UnaryStatus(r))
       /\ WF_vars(UnaryParse(r))
       /\ WF_vars(StreamStatus(r))
       /\ WF_vars(StreamPassOn(r))
       /\ WF_vars(StreamEnd(r))

(***************************************************************************)
(* Specifications                                                          *)
(***************************************************************************)
NextTree == Add \/ UpdateContent \/ Delete

SpecTree ==
    /\ InitTree
    /\ [][NextTree]_vars

SpecGate ==
    /\ InitGate
    /\ [][NextGate]_vars

SpecTool ==
    /\ InitTool
    /\ [][NextTool]_vars

SpecClean ==
    /\ InitClean
    /\ [][NextClean]_vars

SpecChat ==
    /\ InitChat
    /\ [][NextChat]_vars

SpecCursor ==
    /\ InitCursor
    /\ [][NextCursor]_vars

SpecConfig ==
    /\ InitConfig
    /\ [][NextConfig]_vars

SpecUsage ==
    /\ InitUsage
    /\ [][NextUsage]_vars

SpecUnary ==
    /\ InitUnary
    /\ [][NextUnary]_vars

SpecStreamed ==
    /\ InitStreamed
    /\ [][NextStreamed]_vars

SpecRole ==
    /\ InitRole
    /\ [][NextRole]_vars

SpecDispatch ==
    /\ InitDispatch
    /\ [][NextDispatch]_vars

SpecProgress ==
    /\ InitProgress
    /\ [][NextGate]_vars
    /\ FairProgress

SpecHistory ==
    /\ InitHistory
    /\ [][NextHistory]_vars

SpecFold ==
    /\ InitFold
    /\ [][NextFold]_vars

SpecContext ==
    /\ InitContext
    /\ [][NextContext]_vars

(***************************************************************************)
(* Properties of the conversation tree                                     *)
(***************************************************************************)
\* every node at or below `node` stores the position `pos` it is reached at
RECURSIVE PathsArePositions(_, _)
PathsArePositions(node, pos) ==
    /\ node.path = pos
    /\ \A i \in 1..Len(node.child) : PathsArePositions(node.child[i], Append(pos, i - 1))

\* C1: after any sequence of add, update_content and delete through the root, every
\* node's stored path equals the child-index sequence that reaches it from the root;
\* a delete renumbers the later siblings and all their descendants.
RenumberingInvariant == PathsArePositions(messages, <<>>)

\* C1 witness: the first child of the root has just been deleted and the sibling that
\* moved into its place carries a child of its own
RenumberingWitness ==
    /\ msg_op.op = "delete" /\ msg_op.res.ok /\ msg_op.path = <<0>>
    /\ get_node_by_path(messages, <<0, 0>>).some

\* C13: for every path p that resolves, add(p, role, content) succeeds and afterwards
\* the node at p + [number of children p had] exists with exactly that role and
\* content, no children and that position as its stored path, the parent having one
\* child more than before.
AddThenGet ==
    [][(msg_op'.op = "add" /\ get_node_by_path(messages, msg_op'.path).some)
          => LET p == msg_op'.path
                 n == Len(get_node_by_path(messages, p).val.child)
                 node == get_node_by_path(messages', Append(p, n))
             IN /\ msg_op'.res.ok
                /\ node = Some([path |-> Append(p, n), role |-> msg_op'.role,
                                content |-> msg_op'.content, child |-> <<>>])
                /\ Len(get_node_by_path(messages', p).val.child) = n + 1]_vars

\* C13 witness: an add below the root has just appended a second child to its parent
AddThenGetWitness ==
    /\ msg_op.op = "add" /\ msg_op.res.ok /\ Len(msg_op.path) = 1
    /\ LET parent == get_node_by_path(messages, msg_op.path).val IN
       /\ Len(parent.child) = 2
       /\ parent.child[2].role = msg_op.role /\ parent.child[2].content = msg_op.content
       /\ parent.child[1].content # msg_op.content

\* the node `i` steps down `path` from `self`, each step taken only when the index
\* is smaller than the child count of the node reached so far
RECURSIVE Descent(_, _, _)
Descent(self, path, i) ==
    IF i = 0 THEN Some(self)
    ELSE LET reached == Descent(self, path, i - 1) IN
         IF reached.some /\ path[i] < Len(reached.val.child)
         THEN Some(reached.val.child[path[i] + 1])
         ELSE None

\* the node of `tree` at the position `pos`
node_at(tree, pos) == Descent(tree, pos, Len(pos)).val

\* what a node holds itself: stored path, role, content and number of children
own_fields(node) ==
    [path |-> node.path, role |-> node.role, content |-> node.content,
     children |-> Len(node.child)]

\* paths the pure operations are probed with: the argument paths of the actions and,
\* below every node, the first index past its children
ProbePaths(node) ==
    ArgPaths(node)
        \cup {Append(pos, Len(node_at(node, pos).child)) : pos \in Positions(node, <<>>)}

\* C25: delete with the empty path fails with UnsupportedOperation and leaves the whole
\* tree (nodes, contents, paths, order of children) as it was, whatever the tree.
RootDeletionUnsupported ==
    /\ delete(messages, <<>>) = [res |-> UnsupportedOperation, self |-> messages]
    /\ (msg_op.op = "delete" /\ msg_op.path = <<>>) => msg_op.res = UnsupportedOperation

\* C25 witness: a delete with the empty path has just been refused on a root that has
\* a child and a grandchild, which are still there
RootDeletionWitness ==
    /\ msg_op.op = "delete" /\ msg_op.path = <<>> /\ msg_op.res = UnsupportedOperation
    /\ get_node_by_path(messages, <<0, 0>>).some

\* C26: get_node with the empty path returns the node it is called on; with another
\* path it returns a node exactly when every index of the root-down descent is
\* smaller than the child count of the node reached so far, and then the node at
\* that position; otherwise it returns None, which the callers report as InvalidPath.
PathResolution ==
    /\ \A pos \in Positions(messages, <<>>) :
          LET node == node_at(messages, pos) IN
          /\ get_node_by_path(node, <<>>) = Some(node)
          /\ get_node_by_path(messages, pos).some
          /\ get_node_by_path(messages, pos).val.path = pos
          /\ get_node_by_path_mut(messages, pos, node) = messages
    /\ \A path \in ProbePaths(messages) :
          /\ get_node_by_path(messages, path) = Descent(messages, path, Len(path))
          /\ get_node_by_path(messages, path).some <=> path \in Positions(messages, <<>>)
          /\ ~get_node_by_path(messages, path).some
                => /\ update_content(messages, path, "a").res = InvalidPath(path)
                   /\ add(messages, path, User, "a").res = InvalidPath(path)

\* C26 witness: the tree has a node two levels down, which resolves, while the index
\* past the children of the root's first child does not
PathResolutionWitness ==
    /\ get_node_by_path(messages, <<0, 0>>).some
    /\ ~get_node_by_path(messages, <<0, 1>>).some
    /\ ~get_node_by_path(messages, <<1>>).some

\* `after` is `before` with the content of the node at `path` replaced by `content`:
\* every node has its path, role and number of children, and its content unless it is
\* the node at `path`
RECURSIVE only_content_differs(_, _, _, _, _)
only_content_differs(before, after, pos, path, content) ==
    /\ after.path = before.path
    /\ after.role = before.role
    /\ after.content = IF pos = path THEN content ELSE before.content
    /\ Len(after.child) = Len(before.child)
    /\ \A i \in 1..Len(before.child) :
          only_content_differs(before.child[i], after.child[i], Append(pos, i - 1),
                               path, content)

\* C27: update_content(p, c) on a path that resolves replaces the content of the node
\* at p and nothing else: that node's path, role and children and every other node
\* stay as they were; on a path that does not resolve it fails with InvalidPath and
\* the tree is unchanged.
UpdateContentFrame ==
    [][msg_op'.op = "update_content"
          => LET path == msg_op'.path IN
             IF Descent(messages, path, Len(path)).some
             THEN /\ msg_op'.res = OkUnit
                  /\ only_content_differs(messages, messages', <<>>, path,
                                          msg_op'.content)
                  /\ node_at(messages', path).child = node_at(messages, path).child
             ELSE /\ msg_op'.res = InvalidPath(path)
                  /\ messages' = messages]_vars

\* C27 witness: the content of a node that has a child and a sibling has just been
\* replaced by a different one
UpdateContentWitness ==
    /\ msg_op.op = "update_content" /\ msg_op.res.ok /\ msg_op.path = <<0>>
    /\ get_node_by_path(messages, <<0, 0>>).some
    /\ get_node_by_path(messages, <<1>>).some
    /\ get_node_by_path(messages, <<0>>).val.content = msg_op.content
    /\ get_node_by_path(messages, <<0, 0>>).val.content # msg_op.content

\* `pos` lies at or below `path`
is_below(pos, path) == Len(pos) >= Len(path) /\ SubSeq(pos, 1, Len(path)) = path

\* the position a node at `pos` outside the removed subtree has after delete(path):
\* the later siblings of the removed node and their descendants move one index left
moved(pos, path) ==
    LET depth == Len(path) IN
    IF /\ Len(pos) >= depth
       /\ SubSeq(pos, 1, depth - 1) = SubSeq(path, 1, depth - 1)
       /\ pos[depth] > path[depth]
    THEN [pos EXCEPT ![depth] = @ - 1]
    ELSE pos

\* C30: for a path p that resolves and is not empty, delete(p) removes the node at p
\* with all its descendants and nothing else: the parent has one child less, the
\* earlier siblings keep index, content and subtree, the later siblings move one
\* position left in their order with role, content and subtree shape kept, and the
\* nodes outside the parent's subtree are unchanged. Stated of delete applied to
\* every tree the operations produce.
DeleteFrame ==
    \A path \in Positions(messages, <<>>) \ {<<>>} :
       LET r == delete(messages, path)
           parent_path == SubSeq(path, 1, Len(path) - 1)
           kept == {pos \in Positions(messages, <<>>) : ~is_below(pos, path)}
       IN /\ r.res = OkUnit
          /\ Positions(r.self, <<>>) = {moved(pos, path) : pos \in kept}
          /\ \A pos \in kept :
                LET before == node_at(messages, pos)
                    after == node_at(r.self, moved(pos, path))
                IN /\ after.role = before.role
                   /\ after.content = before.content
                   /\ after.path = moved(pos, path)
                   /\ Len(after.child)
                         = IF pos = parent_path THEN Len(before.child) - 1
                           ELSE Len(before.child)
                   /\ (moved(pos, path) = pos /\ ~is_below(parent_path, pos))
                         => after = before

\* C30 witness: the first of three children of the root has just been deleted; the two
\* that remain differ in content
DeleteFrameWitness ==
    /\ msg_op.op = "delete" /\ msg_op.res.ok /\ msg_op.path = <<0>>
    /\ Len(messages.child) = 2
    /\ messages.child[1].content # messages.child[2].content

\* C31: when the parent prefix of the path does not resolve, delete fails with
\* InvalidPath, and when the parent resolves but the last index is not smaller than
\* its child count, delete fails with InvalidIndex; the error is what the caller
\* gets and the tree is unchanged. Stated of delete applied to every tree the
\* operations produce.
DeleteInvalidAddress ==
    /\ \A path \in ProbePaths(messages) \ Positions(messages, <<>>) :
          LET parent_path == SubSeq(path, 1, Len(path) - 1)
              index == path[Len(path)]
              parent == Descent(messages, parent_path, Len(parent_path))
          IN delete(messages, path)
                = [res |-> IF ~parent.some THEN InvalidPath(parent_path)
                           ELSE InvalidIndex(index, parent_path),
                   self |-> messages]
    /\ (msg_op.op = "delete" /\ ~msg_op.res.ok /\ msg_op.path # <<>>)
          => msg_op.res.err \in {"InvalidPath", "InvalidIndex"}

\* C31 witness: on a tree with a node two levels down, a delete whose last index lies
\* past the one child of the root has just been refused with InvalidIndex, and a
\* delete through that missing child is refused with InvalidPath
DeleteInvalidWitness ==
    /\ msg_op.op = "delete" /\ msg_op.path = <<1>>
    /\ msg_op.res = InvalidIndex(1, <<>>)
    /\ get_node_by_path(messages, <<0, 0>>).some
    /\ delete(messages, <<1, 0>>).res = InvalidPath(<<1>>)

(***************************************************************************)
(* Properties of the concurrency gate                                      *)
(***************************************************************************)
\* the chats that hold a permit of semaphore s
holders(s) == {r \in Requests : req[r].permit /\ req[r].sem = s}

\* the span between the acquisition of the permit and the handling of what the send gave
SendingWindow(r) == req[r].pc \in {"Sending", "GotResponse"}

\* a call has been entered and has not returned
in_flight(r) == req[r].pc \notin {"Idle", "Done"}

\* C2: for every endpoint the number of requests holding a permit of its gate never
\* exceeds the configured parallelism; with parallelism 1 no two requests to the
\* endpoint are in their Sending windows at the same time.
ConcurrencyBound ==
    /\ \A base_url \in Endpoints :
          Cardinality(holders(THREAD_POOL[base_url]))
              <= semaphores[THREAD_POOL[base_url]].capacity
    /\ \A r1, r2 \in Requests :
          (/\ r1 # r2
           /\ SendingWindow(r1) /\ SendingWindow(r2)
           /\ req[r1].base_url = req[r2].base_url)
              => semaphores[THREAD_POOL[req[r1].base_url]].capacity > 1

\* C2 witness: on an endpoint of parallelism 1 one request is sending while a second
\* request to the same endpoint waits for the permit
ConcurrencyWitness ==
    \E r1, r2 \in Requests :
        /\ r1 # r2
        /\ req[r1].pc = "Sending" /\ req[r2].pc = "AcquiringPermit"
        /\ req[r1].base_url = req[r2].base_url
        /\ semaphores[req[r1].sem].capacity = 1
        /\ semaphores[req[r1].sem].permits = 0

\* C3: a request that has returned holds no permit, whatever its result; the permits
\* available plus the permits held always make up the capacity, so a gate with no
\* request in flight has all its permits available.
NoCapacityLeak ==
    /\ \A r \in Requests : req[r].pc = "Done" => ~req[r].permit
    /\ \A base_url \in Endpoints :
          LET s == THREAD_POOL[base_url] IN
          /\ semaphores[s].permits + Cardinality(holders(s)) = semaphores[s].capacity
          /\ (\A r \in Requests : req[r].base_url = base_url => ~in_flight(r))
                => semaphores[s].permits = semaphores[s].capacity

\* C3 witness: every request has returned, one of them a streaming request refused
\* with a 5xx status and one with a stream that broke off, and every gate is full again
NoLeakWitness ==
    /\ \A r \in Requests : req[r].pc = "Done"
    /\ \E r1, r2 \in Requests :
          /\ req[r1].kind = "stream" /\ req[r1].result = HttpError(503)
          /\ req[r2].kind = "stream" /\ req[r2].released_at = "chunk_error"
          /\ req[r1].base_url = req[r2].base_url
    /\ \A base_url \in Endpoints :
          semaphores[THREAD_POOL[base_url]].permits
              = semaphores[THREAD_POOL[base_url]].capacity

\* C4: a streaming request holds its permit from the acquisition, through the return of
\* the byte stream to the caller, for as long as the stream is drained; a successful
\* streaming exchange gives the permit back only at the end of the stream.
StreamingPermitHeld ==
    \A r \in Requests :
        req[r].kind = "stream" =>
            /\ req[r].pc \in {"Sending", "GotResponse", "StreamReturned", "Draining"}
                  => /\ req[r].permit
                     /\ semaphores[req[r].sem].permits < semaphores[req[r].sem].capacity
            /\ req[r].result.ok
                  => req[r].pc = "Done" /\ ~req[r].permit /\ req[r].released_at = "stream_end"

\* C4 witness: a stream has delivered a chunk, is still being drained and occupies the
\* only slot of its endpoint while another request waits for it
StreamingWitness ==
    \E r1, r2 \in Requests :
        /\ req[r1].kind = "stream" /\ req[r1].pc = "Draining" /\ req[r1].chunks >= 1
        /\ req[r1].permit
        /\ req[r2].pc = "AcquiringPermit" /\ req[r2].base_url = req[r1].base_url
        /\ semaphores[req[r1].sem].permits = 0

\* C5: a unary request holds no permit once the send has completed: not while the
\* status is checked, not while the body is parsed, not when usage has been added.
UnaryPermitReleased ==
    \A r \in Requests :
        req[r].kind = "unary" =>
            /\ req[r].pc \in {"StatusCheck", "ParsingBody", "Done"}
                  => ~req[r].permit /\ req[r].released_at = "send"
            /\ req[r].usage > 0 => ~req[r].permit

\* C5 witness: a unary request parses its body while another request already holds the
\* only permit of the same endpoint
UnaryWitness ==
    \E r1, r2 \in Requests :
        /\ req[r1].kind = "unary" /\ req[r1].pc = "ParsingBody"
        /\ r2 # r1 /\ req[r2].base_url = req[r1].base_url /\ req[r2].permit
        /\ semaphores[req[r1].sem].capacity = 1

(***************************************************************************)
(* Properties of one outbound call                                         *)
(***************************************************************************)
\* the positions of a call that follow the send
AfterSend ==
    {"GotResponse", "StatusCheck", "ParsingBody", "StreamReturned", "Draining", "Done"}

\* C28: every outbound call goes from Idle to AcquiringPermit to Sending in that order
\* and returns one outcome; the request is not sent before the call holds a permit; a
\* response whose status is not 2xx gives HttpError with that status, a transport
\* timeout gives TimeoutError and any other transport failure gives UnknownError.
CallStateMachine ==
    [][\A r \in Requests :
          /\ req'[r].pc = "Idle" => req[r].pc = "Idle"
          /\ (req'[r].pc = "AcquiringPermit" /\ req[r].pc # "AcquiringPermit")
                => req[r].pc = "Idle"
          /\ (req'[r].pc = "Sending" /\ req[r].pc # "Sending")
                => (req[r].pc = "AcquiringPermit" /\ req'[r].permit)
          /\ (req'[r].pc \in AfterSend /\ req[r].pc \notin AfterSend)
                => (req[r].pc = "Sending" /\ req[r].permit)
          /\ req'[r].pc = "Done" => req'[r].result # NoResult
          /\ req[r].pc = "Done" => req'[r] = req[r]
          /\ (req[r].pc \in {"GotResponse", "StatusCheck"}
                /\ req'[r].pc \notin {"GotResponse", "StatusCheck"})
                => LET response == req[r].response IN
                   /\ (response.ok /\ response.status \notin 200..299)
                         => (req'[r].pc = "Done"
                               /\ req'[r].result = HttpError(response.status))
                   /\ (~response.ok /\ response.timeout)
                         => (req'[r].pc = "Done" /\ req'[r].result = TimeoutError)
                   /\ (~response.ok /\ ~response.timeout)
                         => (req'[r].pc = "Done" /\ req'[r].result = UnknownError)
                   /\ (response.ok /\ response.status \in 200..299)
                         => req'[r].pc \in {"ParsingBody", "StreamReturned"}]_vars

\* C28 failing state: a response with status 304 has passed the status check of
\* get_response: the call goes on to parse the body and has returned no HttpError
StatusNotAnError ==
    \E r \in Requests :
       /\ req[r].kind = "unary" /\ req[r].pc = "ParsingBody"
       /\ req[r].response.ok /\ req[r].response.status = 304
       /\ req[r].result = NoResult

\* C29: one invocation of get_response or get_stream_response acquires at most one
\* permit and sends at most one request: the permit is taken only on the way from
\* AcquiringPermit to Sending, a call that has left AcquiringPermit or Sending never
\* comes back to it, and an error once returned stays the outcome of the call.
NoRetry ==
    [][\A r \in Requests :
          /\ (req'[r].permit /\ ~req[r].permit)
                => (req[r].pc = "AcquiringPermit" /\ req'[r].pc = "Sending")
          /\ req'[r].pc = "AcquiringPermit" => req[r].pc \in {"Idle", "AcquiringPermit"}
          /\ req'[r].pc = "Sending" => req[r].pc \in {"AcquiringPermit", "Sending"}
          /\ req[r].pc \in AfterSend => req'[r].pc \in AfterSend
          /\ req[r].result # NoResult
                => (req'[r].pc = "Done" /\ req'[r].result = req[r].result)]_vars

\* C29 witness: a unary call has returned a transport timeout and a streaming call an
\* HttpError; both are Done without a permit, and every permit is back in its gate
NoRetryWitness ==
    \E r1, r2 \in Requests :
       /\ req[r1].kind = "unary" /\ req[r1].pc = "Done" /\ req[r1].result = TimeoutError
       /\ req[r2].kind = "stream" /\ req[r2].pc = "Done"
       /\ req[r2].result = HttpError(503)
       /\ ~req[r1].permit /\ ~req[r2].permit
       /\ \A base_url \in Endpoints :
             semaphores[THREAD_POOL[base_url]].permits
                = semaphores[THREAD_POOL[base_url]].capacity

(***************************************************************************)
(* Properties of the registry of gates                                     *)
(***************************************************************************)

\* the requests to an endpoint that hold a permit, of whichever semaphore
endpoint_holders(base_url) ==
    {r \in Requests : req[r].permit /\ req[r].base_url = base_url}

\* C24: the gate registered for an endpoint is never resized or replaced: the permits
\* available at the endpoint's gate plus the permits held by requests to the endpoint
\* equal the capacity the gate was first created with, and every request to the
\* endpoint that is in flight contends on the gate registered first.
GateNeverResized ==
    \A base_url \in Endpoints :
       /\ THREAD_POOL[base_url] = first_gate(base_url)
       /\ semaphores[THREAD_POOL[base_url]].permits
             + Cardinality(endpoint_holders(base_url))
                = semaphores[first_gate(base_url)].capacity
       /\ \A r \in Requests :
             (in_flight(r) /\ req[r].base_url = base_url)
                => req[r].sem = first_gate(base_url)

\* C24 failing state: an endpoint first registered with one permit has been registered
\* again while a request held that permit, and a second request to the endpoint
\* holds a permit of the new semaphore at the same time
GateReplaced ==
    \E base_url \in Endpoints, r1, r2 \in Requests :
       /\ semaphores[first_gate(base_url)].capacity = 1
       /\ THREAD_POOL[base_url] # first_gate(base_url)
       /\ r1 # r2
       /\ req[r1].base_url = base_url /\ req[r2].base_url = base_url
       /\ req[r1].permit /\ req[r1].sem = first_gate(base_url) /\ SendingWindow(r1)
       /\ req[r2].permit /\ req[r2].sem = THREAD_POOL[base_url] /\ SendingWindow(r2)

(***************************************************************************)
(* Properties of the tool dispatcher                                       *)
(***************************************************************************)
\* number of tags of the answer of the main exchange
tag_count == (Len(tool.answer) - 1) \div 3

\* inner text of the i-th tag of the answer, in text order
tag_text(i) == <<tool.answer[3 * i]>>

\* get_tool_answer has returned Ok((clean_answer, results))
returned_ok == tool.pc = "returned" /\ tool.ret.ok

\* the placeholder pushed for a call that ended with the ToolCallError message `msg`
call_failed_slot(msg) == "{\"error\": \"Tool call failed with error: " \o msg \o "\"}"

\* a character as `{:?}` writes it inside a string
debug_char(c) ==
    CASE c = "\"" -> "\\\""
      [] c = "\\" -> "\\\\"
      [] c = "\n" -> "\\n"
      [] c = "\r" -> "\\r"
      [] c = "\t" -> "\\t"
      [] OTHER -> IF c \in ControlChars \cup {CodePoints[127]}
                  THEN "\\u{" \o hex(ord(c)) \o "}"
                  ELSE c

\* the first n characters of a text as `{:?}` writes them
RECURSIVE debug_prefix(_, _)
debug_prefix(text, n) ==
    IF n = 0 THEN ""
    ELSE debug_prefix(text, n - 1) \o debug_char(SubSeq(text, n, n))

\* the messages the panics of a task carry
PanicMessages ==
    {payload.val : payload \in {p \in PanicPayloads \cup EarlyPanicPayloads : p.some}}

\* every such message as `{:?}` writes it, between the quotes
PanicMessageDebug == [msg \in PanicMessages |-> debug_prefix(msg, Len(msg))]

\* the placeholder pushed for call #i (0-based) whose task could not be joined: the
\* Debug text of the JoinError, with the message of the panic when it carries one
join_failed_slot(i, t) ==
    "{\"error\": \"Task execution failed: Task join error for call #" \o ToString(i)
        \o ": JoinError::Panic(Id(" \o ToString(t.join_error.id) \o "), "
        \o (IF t.join_error.msg.some
            THEN "\"" \o PanicMessageDebug[t.join_error.msg.val] \o "\", "
            ELSE "")
        \o "...)\"}"

\* the secondary inference of task i has answered with the function name `name`
names(i, name) ==
    LET t == tool.tasks[i] IN
    /\ t.st = "finished" /\ t.inference.ok
    /\ t.inference.function_call.name = Some(name)

\* the secondary inference of task i named function `name` with arguments that parse
resolves(i, name) ==
    LET t == tool.tasks[i] IN
    /\ t.st = "finished" /\ t.inference.ok
    /\ t.inference.function_call.name = Some(name)
    /\ t.inference.function_call.arguments.some
    /\ from_str_arguments(t.inference.function_call.arguments.val).ok

\* the parsed arguments of task i
parsed_args(i) ==
    from_str_arguments(tool.tasks[i].inference.function_call.arguments.val).val

\* C6: for an answer with N tags get_tool_answer returns exactly N results, and
\* result i is the outcome of the task of the i-th tag in text order, in whatever
\* order the tasks complete.
ResultsInTagOrder ==
    returned_ok =>
        /\ Len(tool.results) = tag_count
        /\ Len(tool.tasks) = tag_count
        /\ \A i \in 1..tag_count :
              /\ tool.tasks[i].text_call = tag_text(i)
              /\ tool.results[i] = result_slot(i - 1, tool.tasks[i])

\* C6 witness: three tags, a task completed before an earlier one, and the first and the
\* last result differ
OrderingWitness ==
    /\ returned_ok /\ Len(tool.results) = 3
    /\ tool.reordered
    /\ tool.results[1] # tool.results[3]
    /\ tool.tasks[1].text_call # tool.tasks[3].text_call

\* C7: once the main exchange has answered, get_tool_answer returns Ok; a call whose
\* inference fails, whose name or arguments are missing, whose arguments do not
\* parse or whose task cannot be joined leaves an error string in its own slot, and
\* every slot is determined by its own call alone.
FailureIsolation ==
    /\ (tool.pc = "returned" /\ tool.answer # <<>>) => tool.ret.ok
    /\ returned_ok =>
          \A i \in 1..Len(tool.tasks) :
              LET t == tool.tasks[i]
                  fc == t.inference.function_call
              IN /\ Len(tool.results) = Len(tool.tasks)
                 /\ t.st = "panicked" => tool.results[i] = join_failed_slot(i - 1, t)
                 /\ (t.st = "finished" /\ ~t.inference.ok)
                       => tool.results[i] = call_failed_slot("Failed to parse function call")
                 /\ (t.st = "finished" /\ t.inference.ok /\ ~fc.name.some)
                       => tool.results[i] = call_failed_slot("Missing field: name")
                 /\ (t.st = "finished" /\ t.inference.ok /\ fc.name.some
                        /\ ~fc.arguments.some)
                       => tool.results[i] = call_failed_slot("Missing field: arguments")
                 /\ (t.st = "finished" /\ t.inference.ok /\ fc.name.some
                        /\ fc.arguments.some /\ ~from_str_arguments(fc.arguments.val).ok)
                       => /\ fc.arguments.val = "{"
                          /\ tool.results[i]
                                = call_failed_slot("Failed to deserialize arguments: EOF "
                                      \o "while parsing an object at line 1 column 1")
                 /\ tool.results[i]
                       = result_slot(i - 1, [st |-> t.st,
                                              join_error |-> t.join_error,
                                              outcome |-> process_tool_call(t.inference)])

\* C7 witness: of three calls the first lost its inference, the second could not be
\* joined, its task having panicked before its inference answered, and the third ran
\* its handler
IsolationWitness ==
    /\ returned_ok /\ Len(tool.tasks) = 3
    /\ tool.tasks[1].st = "finished" /\ ~tool.tasks[1].inference.ok
    /\ tool.tasks[2].st = "panicked" /\ tool.tasks[2].inference = NoInference
    /\ tool.tasks[2].join_error.msg \in EarlyPanicPayloads
    /\ resolves(3, "inc") /\ tool.results[3] = to_string_pretty(JsonInteger(parsed_args(3).n + 1))

\* the batch of three tags of which only the second names an unregistered function
\* comes back as three results, the first and the third being the serialized handler
\* outputs, in tag order
UnregisteredInBatch ==
    (/\ tool.pc = "returned" /\ Len(tool.tasks) = 3
     /\ resolves(1, "inc") /\ names(2, "ghost") /\ resolves(3, "inc"))
       => /\ tool.ret.ok
          /\ tool.results = <<to_string_pretty(tool_fn("inc", parsed_args(1)).val),
                              "Cannot find function named 'ghost'",
                              to_string_pretty(tool_fn("inc", parsed_args(3)).val)>>

\* C8 as stated: a call whose inference names a function the registry does not hold
\* ends as an Ok result carrying the "Cannot find function" text, and the batch of
\* three with such a call in the middle returns that text as its second result.
UnregisteredAlwaysDegrades ==
    /\ \A i \in 1..Len(tool.tasks) :
          names(i, "ghost") =>
              tool.tasks[i].outcome = ToolOk("Cannot find function named 'ghost'", <<>>)
    /\ UnregisteredInBatch

\* C8 amended: a call that names a function the registry does not hold invokes no
\* handler; it ends as an Ok result carrying the "Cannot find function" text when its
\* arguments are there and parse, and as the MissingField or DeserializeArguments
\* error when they are missing or do not parse; of three tags of which only the
\* second is unregistered, with arguments that parse, three results come back, the
\* first and the third being the serialized handler outputs, in tag order.
UnregisteredToolDegrades ==
    /\ \A i \in 1..Len(tool.tasks) :
          names(i, "ghost") =>
              LET fc == tool.tasks[i].inference.function_call
                  outcome == tool.tasks[i].outcome
              IN /\ "ghost" \notin Registry
                 /\ outcome.invoked = <<>>
                 /\ IF ~fc.arguments.some
                    THEN ~outcome.ok /\ outcome.str = "Missing field: arguments"
                    ELSE IF ~from_str_arguments(fc.arguments.val).ok
                    THEN /\ ~outcome.ok
                         /\ outcome.str = "Failed to deserialize arguments: EOF while "
                                              \o "parsing an object at line 1 column 1"
                    ELSE /\ outcome.ok
                         /\ outcome.str = "Cannot find function named 'ghost'"
                 /\ returned_ok =>
                       tool.results[i] = IF outcome.ok THEN outcome.str
                                         ELSE call_failed_slot(outcome.str)
    /\ (/\ tool.pc = "returned" /\ Len(tool.tasks) = 3
        /\ resolves(1, "inc") /\ resolves(2, "ghost") /\ resolves(3, "inc"))
          => /\ tool.ret.ok
             /\ tool.results = <<to_string_pretty(tool_fn("inc", parsed_args(1)).val),
                                 "Cannot find function named 'ghost'",
                                 to_string_pretty(tool_fn("inc", parsed_args(3)).val)>>

\* C8 witness: the batch of three with the unregistered name in the middle has returned
UnregisteredWitness ==
    /\ tool.pc = "returned" /\ Len(tool.tasks) = 3
    /\ resolves(1, "inc") /\ resolves(2, "ghost") /\ resolves(3, "inc")
    /\ parsed_args(1) # parsed_args(3)

\* C9: a call that names a registered function invokes the handler exactly once, with
\* the parsed arguments; its result is Ok: the pretty JSON of the handler's value, or
\* the "Calling function ... failed" text when the handler reports a failure. A
\* task that panicked has invoked no handler, its inference not having answered, or
\* the registered handler its inference named, once and with the parsed arguments.
HandlerOutcome ==
    \A i \in 1..Len(tool.tasks) :
        /\ \A name \in Registry :
              resolves(i, name) =>
                  LET outcome == tool.tasks[i].outcome
                      result == tool_fn(name, parsed_args(i))
                  IN /\ outcome.ok
                     /\ outcome.invoked = <<[name |-> name, args |-> parsed_args(i)]>>
                     /\ result.ok => outcome.str = to_string_pretty(result.val)
                     /\ ~result.ok
                           => outcome.str = "Calling function '" \o name \o "' failed: "
                                                \o result.err
                     /\ returned_ok => tool.results[i] = outcome.str
        /\ tool.tasks[i].st = "panicked" =>
              LET t == tool.tasks[i]
                  fc == t.inference.function_call
              IN \/ t.inference = NoInference /\ t.outcome.invoked = <<>>
                 \/ /\ t.inference.ok /\ fc.name.some /\ fc.name.val \in Registry
                    /\ fc.arguments.some /\ from_str_arguments(fc.arguments.val).ok
                    /\ t.outcome.invoked = <<[name |-> fc.name.val,
                                              args |-> parsed_args(i)]>>

\* C9 witness: one call ran a handler that succeeded, the next one a handler that
\* failed, and the handler of the third panicked
HandlerWitness ==
    /\ returned_ok /\ Len(tool.tasks) = 3
    /\ resolves(1, "inc") /\ tool.results[1] = "2"
    /\ resolves(2, "fail")
    /\ tool.results[2] = "Calling function 'fail' failed: Failed to call function"
    /\ tool.tasks[3].st = "panicked" /\ Len(tool.tasks[3].outcome.invoked) = 1

(***************************************************************************)
(* Properties of the clean answer                                          *)
(***************************************************************************)
\* whether `caps` are the tagged regions of `input`: each runs from an opening tag to
\* the nearest closing tag after it, the regions follow each other without overlap,
\* each starts at the first opening tag after the region before it, and no complete
\* pair of tags is left after the last one
TagScan(input, caps) ==
    LET last_to(k) == IF k = 0 THEN 0 ELSE caps[k].to IN
    /\ \A k \in 1..Len(caps) :
          /\ caps[k].from > last_to(k - 1) /\ caps[k].from < caps[k].to
          /\ caps[k].to <= Len(input)
          /\ input[caps[k].from] = OPEN /\ input[caps[k].to] = CLOSE
          /\ \A j \in (caps[k].from + 1)..(caps[k].to - 1) : input[j] # CLOSE
          /\ \A j \in (last_to(k - 1) + 1)..(caps[k].from - 1) : input[j] # OPEN
    /\ ~\E i, j \in (last_to(Len(caps)) + 1)..Len(input) :
           i < j /\ input[i] = OPEN /\ input[j] = CLOSE

\* whether the text holds an opening tag with a closing tag after it
has_tag_pair(input) ==
    \E i, j \in 1..Len(input) : i < j /\ input[i] = OPEN /\ input[j] = CLOSE

\* C11: extract_tool_uses yields one call text per tagged region, the regions taken
\* left to right without overlap, each ending at the nearest closing tag and free to
\* hold line breaks; the call texts are the inner texts of the regions (less the
\* white space around them) in text order, and there is none exactly when the text
\* holds no complete pair of tags.
TagExtraction ==
    clean.pc # "answer" =>
        LET caps == captures_iter(clean.input, 1) IN
        /\ TagScan(clean.input, caps)
        /\ Len(clean.text_calls) = Len(caps)
        /\ \A k \in 1..Len(caps) :
              LET inner == SubSeq(clean.input, caps[k].from + 1, caps[k].to - 1)
                  call == clean.text_calls[k]
              IN /\ \E a, b \in 0..Len(inner) :
                       /\ a + b + Len(call) = Len(inner)
                       /\ call = SubSeq(inner, a + 1, Len(inner) - b)
                       /\ \A j \in (1..a) \cup ((Len(inner) - b + 1)..Len(inner)) :
                              inner[j] \in Whitespace
                 /\ call # <<>> => call[1] \notin Whitespace /\ call[Len(call)] \notin Whitespace
        /\ (clean.text_calls = <<>>) <=> ~has_tag_pair(clean.input)

\* C11 witness: two regions were found, the first one holding a line break, with a
\* closing tag of the second region that a greedy scan would have run to
TagExtractionWitness ==
    /\ clean.pc = "extracted"
    /\ Len(clean.text_calls) = 2
    /\ clean.input[2] = "\n"

\* the text with the token spans of `caps` cut out
RemoveSpans(input, caps) ==
    LET keep(i) == \A k \in 1..Len(caps) : i < caps[k].from \/ i > caps[k].to
        RECURSIVE Pick(_)
        Pick(i) == IF i > Len(input) THEN <<>>
                   ELSE IF keep(i) THEN <<input[i]>> \o Pick(i + 1)
                   ELSE Pick(i + 1)
    IN Pick(1)

\* C10: for a text with at least one tag, the returned text is the original text with
\* every span the extraction matched removed, whatever the inner text of the span,
\* and the text outside the spans unchanged.
CleanRemainder ==
    (clean.pc = "returned" /\ clean.text_calls # <<>>)
        => clean.clean_answer = RemoveSpans(clean.input, captures_iter(clean.input, 1))

\* C10: the tag whose inner text starts with white space stays in the returned text
CleanRemainderFails ==
    /\ clean.pc = "returned"
    /\ clean.input = <<OPEN, " ", "1", CLOSE>>
    /\ clean.text_calls = <<(<<"1">>)>>
    /\ clean.clean_answer = clean.input

(***************************************************************************)
(* Properties of the context assembly                                      *)
(***************************************************************************)
\* whether p is a prefix of q
is_prefix(p, q) == Len(p) <= Len(q) /\ SubSeq(q, 1, Len(p)) = p

\* whether a is the longest common prefix of p and q
is_longest_common_prefix(a, p, q) ==
    /\ is_prefix(a, p) /\ is_prefix(a, q)
    /\ (Len(a) < Len(p) /\ Len(a) < Len(q)) => p[Len(a) + 1] # q[Len(a) + 1]

\* the prefixes of p that are longer than a, shortest first
below(a, p) == [i \in 1..(Len(p) - Len(a)) |-> SubSeq(p, 1, Len(a) + i)]

\* both path arguments of the assembled context resolve in the tree
ctx_paths_resolve ==
    /\ get_node_by_path(messages, ctx.start_path).some
    /\ get_node_by_path(messages, ctx.end_path).some

\* C16: when the common ancestor, a step of start_path or a step of end_path does not
\* resolve, assemble_context fails with InvalidPath and returns no list.
ContextFailurePolicy ==
    (ctx.pc = "assembled" /\ ~ctx_paths_resolve)
        => ~ctx.res.ok /\ ctx.res.err = "InvalidPath"

\* C16: an end path whose second step does not resolve gave a list cut off after the
\* root and its first child
ContextTruncated ==
    /\ ctx.pc = "assembled"
    /\ ctx.start_path = <<>> /\ Len(ctx.end_path) = 2 /\ ctx.end_path[1] = 0
    /\ ~get_node_by_path(messages, ctx.end_path).some
    /\ ctx.res.ok /\ Len(ctx.res.val) = 2

\* C17: for start and end paths that resolve, with longest common prefix a, the
\* collected nodes are those below a along start_path (a itself when start_path = a)
\* followed by those below a along end_path, each root-down, no path twice, and the
\* result holds their wire entries in that order.
ContextCollectionOrder ==
    (ctx.pc = "assembled" /\ ctx_paths_resolve) =>
        \E n \in 0..Len(ctx.start_path) :
            LET a == SubSeq(ctx.start_path, 1, n)
                expected == (IF ctx.start_path = a THEN <<a>> ELSE below(a, ctx.start_path))
                                \o below(a, ctx.end_path)
            IN /\ is_longest_common_prefix(a, ctx.start_path, ctx.end_path)
               /\ Len(ctx.nodes) = Len(expected)
               /\ \A k \in 1..Len(expected) :
                     /\ ctx.nodes[k] = get_node_by_path(messages, expected[k]).val
                     /\ ctx.nodes[k].path = expected[k]
               /\ \A j, k \in 1..Len(ctx.nodes) :
                     j # k => ctx.nodes[j].path # ctx.nodes[k].path
               /\ ctx.res.ok /\ Len(ctx.res.val) = Len(ctx.nodes)
               /\ \A k \in 1..Len(ctx.nodes) :
                     ctx.res.val[k] = to_api_format(ctx.nodes[k], ctx.current_speaker)

\* C17 witness: the paths part below the root: the start branch node comes first, then
\* the end branch node
CollectionOrderWitness ==
    /\ ctx.pc = "assembled"
    /\ ctx.start_path = <<1>> /\ ctx.end_path = <<0>>
    /\ Len(ctx.nodes) = 2
    /\ ctx.nodes[1].path = <<1>> /\ ctx.nodes[2].path = <<0>>
    /\ ctx.res.val[1] # ctx.res.val[2]

\* C18: for a path p that resolves, assemble_context(p, p, speaker) returns exactly one
\* entry, the wire entry of the node at p under that speaker.
SingleNodeContext ==
    (ctx.pc = "assembled" /\ ctx.start_path = ctx.end_path /\ ctx_paths_resolve) =>
        /\ ctx.res.ok
        /\ ctx.res.val = <<to_api_format(get_node_by_path(messages, ctx.start_path).val,
                                          ctx.current_speaker)>>

\* C18 witness: the context of a leaf below the root, start and end path being the same
SingleNodeWitness ==
    /\ ctx.pc = "assembled"
    /\ ctx.start_path = <<0, 0>> /\ ctx.end_path = <<0, 0>>
    /\ Len(ctx.res.val) = 1
    /\ ctx.res.val[1].content = get_node_by_path(messages, <<0, 0>>).val.content

\* C19: System, User and Assistant nodes map to "system", "user", "assistant" with
\* their content unchanged under every speaker; a Character(c) node maps to
\* "assistant" with its content unchanged exactly when the speaker is Character(c),
\* and to "user" with the content "c said: content" otherwise.
WireMapping ==
    ctx.pc = "assembled" =>
        \A k \in 1..Len(ctx.nodes) :
            LET node == ctx.nodes[k]
                entry == ctx.res.val[k]
                speaking == /\ ctx.current_speaker.tag = "Character"
                            /\ ctx.current_speaker.name = node.role.name
            IN /\ node.role = System => entry = ApiMessage("system", node.content)
               /\ node.role = User => entry = ApiMessage("user", node.content)
               /\ node.role = Assistant => entry = ApiMessage("assistant", node.content)
               /\ (node.role.tag = "Character" /\ speaking)
                     => entry = ApiMessage("assistant", node.content)
               /\ (node.role.tag = "Character" /\ ~speaking)
                     => entry = ApiMessage("user", node.role.name \o " said: "
                                                       \o node.content)

\* C19 witness: under the speaker Character("Alice") the context holds a node of
\* Alice, a node of Bob and a System node
WireMappingWitness ==
    /\ ctx.pc = "assembled" /\ ctx.current_speaker = Character("Alice")
    /\ Len(ctx.res.val) = 3
    /\ ctx.nodes[1].role = System
    /\ ctx.nodes[2].role = Character("Alice")
    /\ ctx.res.val[2] = ApiMessage("assistant", "Hi Bob")
    /\ ctx.nodes[3].role = Character("Bob")
    /\ ctx.res.val[3] = ApiMessage("user", "Bob said: Hi Bob")

\* C36: for every pair of start and end paths that resolve, the end path a proper
\* prefix of the start path included, the result of assemble_context holds the wire
\* entry of the node at end_path.
EndNodeInContext ==
    (/\ ctx.pc = "assembled"
     /\ get_node_by_path(messages, ctx.start_path).some
     /\ get_node_by_path(messages, ctx.end_path).some)
    => \E k \in 1..Len(ctx.nodes) :
          /\ ctx.nodes[k].path = ctx.end_path
          /\ ctx.res.val[k]
                = to_api_format(get_node_by_path(messages, ctx.end_path).val,
                                ctx.current_speaker)

\* C36 failing state: the context from the first child of the root up to the root has
\* been assembled: it holds the entry of the child alone, the root at end_path is not
\* in it
EndNodeMissing ==
    /\ ctx.pc = "assembled"
    /\ ctx.start_path = <<0>> /\ ctx.end_path = <<>>
    /\ get_node_by_path(messages, <<0>>).some
    /\ Len(ctx.nodes) = 1 /\ ctx.nodes[1].path = <<0>>
    /\ Len(ctx.res.val) = 1

(***************************************************************************)
(* Properties of the streaming reduction                                   *)
(***************************************************************************)
\* the lines of a well-formed chunk: "", "data: [DONE]", or a JSON event with or
\* without the "data: " prefix
well_formed_line(line) ==
    \/ line = Line(FALSE, EmptyBody)
    \/ line = Line(TRUE, DoneBody)
    \/ line.body.kind = "json"

well_formed(stream) ==
    \A i \in 1..Len(stream) :
        /\ stream[i].ok
        /\ \A j \in 1..Len(stream[i].chunk) : well_formed_line(stream[i].chunk[j])

\* the string fragments of `choices[*].delta.content` of one line, in array order
ContentsOfLine(line) ==
    IF line.body.kind = "json" /\ line.body.value.choices.some
    THEN LET choices == line.body.value.choices.val
             carries(c) == c.delta.some /\ c.delta.val.content.some
             picked == SelectSeq(choices, carries)
         IN  [k \in 1..Len(picked) |-> picked[k].delta.val.content.val]
    ELSE <<>>

\* the strings of a sequence, joined from first to last
RECURSIVE Joined(_)
Joined(strings) ==
    IF strings = <<>> THEN "" ELSE Head(strings) \o Joined(Tail(strings))

\* the text of the fragments of the first n lines of a chunk, in line order
RECURSIVE TextOfLines(_, _)
TextOfLines(chunk, n) ==
    IF n = 0
    THEN ""
    ELSE LET fragments == ContentsOfLine(chunk[n])
         IN  TextOfLines(chunk, n - 1) \o Joined(fragments)

\* the text of the fragments of the first n chunks of a stream, in arrival order
RECURSIVE TextInArrivalOrder(_, _)
TextInArrivalOrder(stream, n) ==
    IF n = 0
    THEN ""
    ELSE TextInArrivalOrder(stream, n - 1)
           \o TextOfLines(stream[n].chunk, Len(stream[n].chunk))

\* C20: for a sequence of well-formed chunks the reduced text is the concatenation of
\* the choices[*].delta.content fragments in chunk arrival order, then line order, then
\* array order; empty lines and "data: [DONE]" add nothing, the "data: " prefix of an
\* event changes nothing, and the fold of well-formed chunks does not fail
StreamingFoldOrder ==
    well_formed(fold.stream) =>
        /\ fold.pc \in {"folding", "done"}
        /\ fold.result.content = TextInArrivalOrder(fold.stream, Len(fold.stream))
        /\ fold.pc = "done" =>
              fold.res = OkContent(TextInArrivalOrder(fold.stream, Len(fold.stream)))

\* fragments "He" and "llo" in two chunks, then [DONE], have been reduced to "Hello"
StreamingFoldWitness ==
    /\ fold.pc = "done"
    /\ fold.stream =
          <<OkItem(<<Line(TRUE, JsonBody(Event(Some(<<Choice(Delta(Some("He")))>>), None)))>>),
            OkItem(<<Line(FALSE, JsonBody(Event(Some(<<Choice(Delta(Some("llo")))>>), None))),
                     Line(TRUE, DoneBody)>>)>>
    /\ fold.res = OkContent("Hello")

\* C21: when a line that is neither empty nor "data: [DONE]" is not JSON, the fold has
\* ended in ParseResponseError at the chunk of that line: no later item of the stream
\* was taken, the accumulated StreamResult is gone and the result carries no content
StreamingAbort ==
    /\ \A i \in 1..Len(fold.stream) :
          (/\ fold.stream[i].ok
           /\ \E j \in 1..Len(fold.stream[i].chunk) : ~well_formed_line(fold.stream[i].chunk[j]))
          => /\ i = Len(fold.stream)
             /\ fold.pc = "failed"
             /\ fold.res = ParseResponseError
             /\ fold.result = StreamResultDefault
    /\ fold.pc = "failed" => get_content_from_stream_resp(fold.stream) = fold.res

\* "He" was folded from a first chunk, "llo" from the first line of the second, and the
\* next line of the second chunk is not JSON: the fold has failed and "Hello" is gone
StreamingAbortWitness ==
    /\ fold.pc = "failed"
    /\ fold.stream =
          <<OkItem(<<Line(TRUE, JsonBody(Event(Some(<<Choice(Delta(Some("He")))>>), None)))>>),
            OkItem(<<Line(TRUE, JsonBody(Event(Some(<<Choice(Delta(Some("llo")))>>), None))),
                     Line(TRUE, MalformedBody)>>)>>
    /\ fold.res = ParseResponseError

(***************************************************************************)
(* Properties of a chat and its exchanges                                  *)
(***************************************************************************)
\* the role the answer of an exchange is stored under
answer_role(self) ==
    IF self.kind = "single" THEN Assistant ELSE Character(self.current_character)

\* the nodes of the chat's tree that carry an answer
answer_nodes(self) ==
    IF self.messages.some
    THEN {pos \in Positions(self.messages.val, <<>>) :
             get_node_by_path(self.messages.val, pos).val.role = answer_role(self)}
    ELSE {}

\* C12: an exchange that fails, at whatever stage, leaves the conversation tree as it
\* was; an exchange that succeeds appends exactly one node, under the answer role, whose
\* content is the text the exchange returns
NoPartialWrite ==
    [][chat'.exchanges = chat.exchanges + 1 =>
          IF chat'.ret.ok
          THEN /\ chat'.op.new_path.some
               /\ ChatNodeCount(chat') = ChatNodeCount(chat) + 1
               /\ answer_nodes(chat') = answer_nodes(chat) \cup {chat'.op.new_path.val}
               /\ get_node_by_path(chat'.messages.val, chat'.op.new_path.val).val.content
                     = chat'.ret.val
          ELSE chat'.messages = chat.messages]_vars

\* a streamed exchange has failed on a line that is not JSON, after a first fragment was
\* folded, on a chat that holds turns and no answer
NoPartialWriteWitness ==
    /\ chat.op.name = "exchange"
    /\ chat.need_stream
    /\ chat.ret = ParseResponseError
    /\ ChatNodeCount(chat) = 2
    /\ answer_nodes(chat) = {}

\* C15: after an add at the chat level the cursor is the path of the node just appended
CursorFollowsAdd ==
    chat.op.new_path.some => chat.message_path = chat.op.new_path.val

\* the second add_message has appended the node [0] and message_path is still empty, so
\* the cursor resolves to the root
CursorStale ==
    /\ chat.op.name = "add_message"
    /\ chat.op.new_path = Some(<<0>>)
    /\ chat.message_path = <<>>
    /\ get_node_by_path(chat.messages.val, chat.message_path).val.path # <<0>>

(***************************************************************************)
\* C22: a unary response with a 2xx status and a JSON body without an integer
\* usage.total_tokens makes get_response fail with MissingUsageData; it is not a
\* success and the usage counter keeps the value it had
MissingUsage ==
    (/\ chat.op.name = "get_response"
     /\ chat.op.send.ok /\ chat.op.send.status \in 200..299
     /\ chat.op.response.body.json /\ ~chat.op.response.body.has_usage)
    => /\ chat.base.ret = MissingUsageData
       /\ chat.base.usage = chat.op.usage_before

\* a call that found the counter at 2 has met a body without usage
MissingUsageWitness ==
    /\ chat.op.name = "get_response"
    /\ chat.op.send.ok /\ chat.op.send.status = 200
    /\ chat.op.response.body.json /\ ~chat.op.response.body.has_usage
    /\ chat.op.usage_before = 2
    /\ chat.base.ret = MissingUsageData /\ chat.base.usage = 2

\* whether the integer u is the exact sum of the JSON integers of `charged`, all of
\* them non-negative
RECURSIVE is_sum_of(_, _)
is_sum_of(u, charged) ==
    IF charged = <<>>
    THEN u = 0
    ELSE LET last == charged[Len(charged)]
         IN  /\ last.wraps = 0
             /\ u >= last.low
             /\ is_sum_of(u - last.low, SubSeq(charged, 1, Len(charged) - 1))

\* C23: the usage counter is the sum of total_tokens over the unary calls that
\* succeeded, and a call that succeeds has raised the counter by its total_tokens
UsageAccounting ==
    /\ is_sum_of(chat.base.usage, chat.charged)
    /\ (chat.op.name = "get_response" /\ chat.base.ret.ok)
          => is_sum_of(chat.base.usage,
                       <<JsonInt(0, chat.op.usage_before), chat.op.response.body.total_tokens>>)

\* a first call whose body reports 2^32 + 1 tokens has succeeded and the counter is 1
UsageTruncated ==
    /\ chat.op.name = "get_response" /\ chat.base.ret.ok
    /\ chat.op.usage_before = 0
    /\ chat.op.response.body.total_tokens = JsonInt(1, 1)
    /\ chat.base.usage = 1

(***************************************************************************)
(* Properties of the unary text extraction                                 *)
(***************************************************************************)
\* the exchange recorded in chat.op got a response that get_response accepts
unary_response_accepted ==
    /\ chat.op.name = "exchange"
    /\ chat.op.send.ok /\ ~is_error_status(chat.op.send.status)
    /\ chat.op.response.body.json /\ chat.op.response.body.has_usage

\* C32: for a successful unary response whose choices[0].message.content is the
\* string s, the text the exchange returns and appends to the tree under the
\* Assistant role is exactly s; when the content is absent the reduction fails with
\* ParseResponseError.
UnaryTextExact ==
    unary_response_accepted
       => IF ~chat.op.response.content.some THEN chat.base.ret = ParseResponseError
          ELSE chat.op.response.content.val.t = "string"
                  => /\ chat.base.ret = OkContent(chat.op.response.content.val.str)
                     /\ chat.base.op.new_path.some
                     /\ LET node == get_node_by_path(chat.base.messages.val,
                                                     chat.base.op.new_path.val).val
                        IN  node.role = Assistant
                               /\ node.content = chat.op.response.content.val.str

\* C32 failing state: the response carried the content Hello and the exchange has
\* returned, and stored as the answer node, the seven characters "Hello" with the
\* double quotes of its JSON form
UnaryTextQuoted ==
    /\ unary_response_accepted
    /\ chat.op.response.content = Some(JsonString("Hello"))
    /\ chat.base.ret = OkContent("\"Hello\"")
    /\ chat.base.messages.some
    /\ get_node_by_path(chat.base.messages.val, chat.base.op.new_path.val).val.content
          = "\"Hello\""

(***************************************************************************)
(* Properties of the requests of a tool dispatch                           *)
(***************************************************************************)
\* the calls of the dispatch that hold a permit of the semaphore s
dispatch_holders(s) == {r \in DispatchCalls : req[r].permit /\ req[r].sem = s}

\* the calls that have not returned
unfinished == {r \in DispatchCalls : req[r].pc \notin {"Idle", "Done"}}

\* the call r takes the next step of its request
pipeline_step(r) ==
    \/ AcquirePermit(r) \/ SendRequest(r) \/ UnaryDrop(r) \/ UnaryStatus(r)
    \/ UnaryParse(r) \/ StreamStatus(r) \/ StreamPassOn(r) \/ StreamChunk(r)
    \/ StreamEnd(r)

\* C33: no task waits for a permit while it holds one: the permit of the main exchange
\* is back in its gate before a tool-call task starts its request, no call holds a
\* permit while it waits to acquire, every call holds at most the one permit of its
\* own gate, and the permits taken from every gate are those of its holders, one each;
\* hence a call that has not returned and does not wait at a gate can take its next
\* step, and a call that waits at a gate without a free permit waits for another call
\* that holds one and can take its next step, also when the main endpoint and the
\* tool-use endpoint share a gate of one permit and several tasks contend for it.
DispatchDeadlockFree ==
    /\ started_tasks # {}
          => (req[main_exchange].pc = "Done" /\ ~req[main_exchange].permit)
    /\ \A r \in DispatchCalls : req[r].pc = "AcquiringPermit" => ~req[r].permit
    /\ \A base_url \in Endpoints :
          LET s == THREAD_POOL[base_url] IN
          semaphores[s].permits + Cardinality(dispatch_holders(s)) = semaphores[s].capacity
    /\ \A r \in unfinished :
          IF req[r].pc # "AcquiringPermit" \/ semaphores[req[r].sem].permits > 0
          THEN ENABLED pipeline_step(r)
          ELSE \E h \in dispatch_holders(req[r].sem) :
                  /\ h # r /\ h \in unfinished /\ req[h].pc # "AcquiringPermit"
                  /\ ENABLED pipeline_step(h)

\* C33 witness: the main exchange, streamed through a gate of one permit, has returned
\* its answer; one tool-call task holds the permit of that same gate for its request
\* and another task waits at that gate
DispatchWitness ==
    \E r, w \in tool_tasks :
       /\ r # w
       /\ main_answered
       /\ req[main_exchange].kind = "stream"
       /\ req[r].base_url = req[main_exchange].base_url
       /\ semaphores[THREAD_POOL[req[r].base_url]].capacity = 1
       /\ req[r].pc = "Sending" /\ req[r].permit
       /\ req[w].pc = "AcquiringPermit" /\ req[w].sem = req[r].sem
       /\ semaphores[req[w].sem].permits = 0

(***************************************************************************)
(* Properties of the progress through the gate                             *)
(***************************************************************************)
\* C34: under fair scheduling, with every send finishing and every stream drained to
\* its end or to an error, a request that starts to wait for a permit eventually
\* holds one and eventually returns an outcome.
GateProgress ==
    \A r \in Requests :
       /\ (req[r].pc = "AcquiringPermit") ~> (req[r].pc = "Sending" /\ req[r].permit)
       /\ (req[r].pc = "AcquiringPermit") ~> (req[r].pc = "Done")

\* C34 failing state: a request waits for a permit of a gate that was registered with
\* parallelism 0: the gate has no permit and no holder that could give one back
WaitingAtEmptyGate ==
    \E r \in Requests :
       /\ req[r].pc = "AcquiringPermit"
       /\ semaphores[req[r].sem].capacity = 0
       /\ semaphores[req[r].sem].permits = 0
       /\ holders(req[r].sem) = {}

(***************************************************************************)
(* Properties of the history of a chat                                     *)
(***************************************************************************)
\* the position of the i-th message of a chain: i - 1 steps down the first child
chain_position(i) == [k \in 1..(i - 1) |-> 0]

\* C35: after n >= 1 calls of add_message, message i + 1 is stored as a child of
\* message i, and build_request_body with end_path at the node added last gives a
\* messages list of exactly those n messages in the order they were added.
HistoryIsChain ==
    LET n == Len(chat.added) IN
    n >= 1 =>
       /\ \A i \in 1..n :
             LET node == get_node_by_path(chat.base.messages.val, chain_position(i)) IN
             /\ node.some
             /\ node.val.role = chat.added[i].role
             /\ node.val.content = chat.added[i].content
       /\ build_request_body(chat.base, chat.last, User)
             = [i \in 1..n |->
                   to_api_format(new(chat.added[i].role, chat.added[i].content), User)]

\* C35 failing state: three messages have been added; the second and the third are
\* both children of the first, and the body built up to the third holds two messages
HistoryIsFlat ==
    /\ Len(chat.added) = 3
    /\ Len(chat.base.messages.val.child) = 2
    /\ chat.last = <<1>>
    /\ ~get_node_by_path(chat.base.messages.val, <<0, 0>>).some
    /\ Len(build_request_body(chat.base, chat.last, User)) = 2

(***************************************************************************)
(* Properties of the lock of the registry                                  *)
(***************************************************************************)
\* C37: while a request is suspended waiting for a permit it holds no lock (entry
\* guard) on THREAD_POOL, so that add_api_source on any endpoint can take its lock
\* and complete, also when the gate waited on has no permit left.
RegistryFreeWhileWaiting ==
    \A r \in Requests :
       req[r].pc = "AcquiringPermit"
          => /\ ~holds_entry_guard(r)
             /\ \A base_url \in Endpoints : insert_can_lock(base_url)

\* C37 failing state: one request holds the only permit of a gate and is sending, a
\* second request to the endpoint waits for the permit with its entry guard alive,
\* and an insert for that endpoint cannot take the write lock
RegistryLockedByWaiter ==
    \E r1, r2 \in Requests :
       /\ req[r1].base_url = req[r2].base_url
       /\ req[r1].sem = req[r2].sem
       /\ req[r1].pc = "Sending" /\ req[r1].permit
       /\ semaphores[req[r1].sem].permits = 0
       /\ req[r2].pc = "AcquiringPermit" /\ holds_entry_guard(r2)
       /\ ~insert_can_lock(req[r2].base_url)

(***************************************************************************)
(* Properties of the streamed exchanges                                    *)
(***************************************************************************)
\* the line without the `usage` of its event
line_usage_removed(line) ==
    IF line.body.kind = "json"
    THEN Line(line.prefix, JsonBody(Event(line.body.value.choices, None)))
    ELSE line

\* the stream whose events carry no `usage`
usage_removed(stream) ==
    [i \in 1..Len(stream) |->
        IF stream[i].ok
        THEN OkItem([j \in 1..Len(stream[i].chunk) |->
                        line_usage_removed(stream[i].chunk[j])])
        ELSE stream[i]]

\* C38: a streamed exchange leaves the usage counter of the chat as it found it, whether
\* it ends in Ok or in an error and whether or not its events carry a usage; what it
\* returns is the error or the content alone, the same as for the stream without its
\* usage fields, so the usage the fold retained does not reach the caller
StreamingLeavesUsage ==
    /\ \A send \in SendResults, stream \in UsageStreams :
          LET r == content_of_exchange(chat.base, send, NoBody, stream)
          IN  /\ r.self.usage = chat.base.usage
              /\ r.ret = content_of_exchange(chat.base, send, NoBody,
                                             usage_removed(stream)).ret
              /\ r.ret.ok => DOMAIN r.ret = {"ok", "err", "code", "val"}
    /\ chat.op.name = "stream" =>
          /\ chat.base.usage = chat.op.usage_before
          /\ get_stream_response(chat.op.send).ok =>
                chat.base.ret = get_content_from_stream_resp(usage_removed(chat.op.stream))

\* a streamed exchange whose events carried a usage has returned its content to a chat
\* whose counter a get_response on the base had raised before
StreamedWithUsage ==
    /\ chat.op.name = "stream"
    /\ fold_result(StreamResultDefault, chat.op.stream).usage = Some(9)
    /\ chat.base.ret = OkContent("Hello")
    /\ chat.op.usage_before > 0
    /\ chat.base.usage = chat.op.usage_before

(***************************************************************************)
(* Properties of the Role conversions                                      *)
(***************************************************************************)
\* C39: every Role comes back from its string: Role::from(r.to_string()) = r, also for
\* a Character whose name is "system", "user" or "assistant"
RoleRoundTrip ==
    \A i \in 1..Len(msg_op.back) : msg_op.back[i] = msg_op.roles[i]

\* the Character named "system" has come back from its string as the System role
ReservedNameLost ==
    /\ Len(msg_op.back) >= 1
    /\ msg_op.roles[1] = Character("system")
    /\ msg_op.strings[1] = "system"
    /\ msg_op.back[1] = System

====
